---- MODULE Spec2Model ----
(***************************************************************************)
(* Model of the retrieval-and-answer pipeline of asistente-fincas-ia       *)
(* (src/ia.py): question sanitizing, the Supabase connection with its      *)
(* backoff and circuit breaker (src/conexion.py), context retrieval and    *)
(* ranking, answer generation behind a circuit breaker and a latency       *)
(* histogram, and the process-wide response cache.                         *)
(*                                                                         *)
(* Strings are sequences of one-character strings.  Time is the monotonic  *)
(* clock in seconds.  External collaborators (create_client, the embedding *)
(* API, the vector_search RPC, the completion API) are inputs of the       *)
(* actions: each request draws their outcomes with \E.                     *)
(***************************************************************************)
EXTENDS Integers, Sequences, FiniteSets, TLC

VARIABLES
    cache,        \* _respuestas_cache: sanitized question -> answer
    gptCB,        \* breaker of responder_con_gpt
    connCB,       \* breaker of conectar_supabase
    now,          \* monotonic clock, seconds
    answered,     \* history: sanitized question -> first generated answer returned
    gptHist,      \* history: consecutive failed completion calls, time of the latest
    last,         \* observation of the most recent completed request
    seq,          \* parity of the number of completed requests and calls
    pc,           \* concurrent requests: position of each worker
    loc,          \* concurrent requests: local variables of each worker
    lastSearch,   \* history: what the vector search returned to the latest request
    args,         \* direct call of one function or handler: its arguments
    ret,          \* direct call of one function or handler: its result
    user_data     \* Telegram bot: context.user_data of every chat

vars == <<cache, gptCB, connCB, now, answered, gptHist, last, seq, pc, loc,
          lastSearch, args, ret, user_data>>

----------------------------------------------------------------------------
(* Bounds *)

MaxTime == 90          \* the clock stops advancing here
MaxRows == 3           \* rows returned by the vector search in a direct call
MaxCtxLen == 4         \* characters of a context passed to truncar_contexto
MaxRawLen == 3         \* characters of a raw question passed to sanitizar_pregunta
MaxDim == 2            \* components of a vector passed to similitud_coseno
MaxDatos == 4          \* records passed to guardar_embeddings
MaxBatch == 3          \* largest batch_size passed to guardar_embeddings

(* Program constants *)

GPT_FAILURE_THRESHOLD == 3
GPT_RECOVERY_TIMEOUT == 60
CONN_FAILURE_THRESHOLD == 3
CONN_RECOVERY_TIMEOUT == 30
CONN_MAX_TRIES == 3
TOP_K == 3
MAX_LENGTH == 500
MAX_PALABRAS == 1500
MAX_RETRIES == 3

MSG_INVALIDA == "Por favor, formula una pregunta válida."
MSG_ERROR == "Hubo un problema al procesar tu solicitud. Intenta más tarde."

----------------------------------------------------------------------------
(* Characters and strings *)

\* \w: letters, digits and the underscore
WordChars ==
    {"a", "b", "c", "e", "l", "m", "n", "o", "p", "r", "t", "C", "0", "_"}
\* \s
SpaceChars == {" ", "\n"}
\* the letters the pattern lists by name (\w matches them as well)
Acentos == {"á", "é", "í", "ó", "ú", "ñ"}
\* the punctuation the pattern lists
KeptPunct == {"¿", "?"}

Min(a, b) == IF a < b THEN a ELSE b

RECURSIVE LStrip(_)
LStrip(s) ==
    IF s = <<>> THEN <<>>
    ELSE IF Head(s) \in SpaceChars THEN LStrip(Tail(s)) ELSE s

RECURSIVE RStrip(_)
RStrip(s) ==
    IF s = <<>> THEN <<>>
    ELSE IF s[Len(s)] \in SpaceChars THEN RStrip(SubSeq(s, 1, Len(s) - 1)) ELSE s

Strip(s) == RStrip(LStrip(s))

\* variant: the closing question mark is not in the class
PermitidoSinCierre(c) == c \in WordChars \cup SpaceChars \cup Acentos \cup {"¿"}

\* the character class [\w\s...?] of the substitution pattern
Permitido(c) == c \in WordChars \cup SpaceChars \cup Acentos \cup KeptPunct

\* variant: the result is not cut to max_length
sanitizar_sin_limite(pregunta, max_length) ==
    SelectSeq(Strip(pregunta), Permitido)

\* variant: the question is not stripped, re.sub(..., pregunta)
sanitizar_sin_strip(pregunta, max_length) ==
    LET limpia == SelectSeq(pregunta, Permitido)
    IN  SubSeq(limpia, 1, Min(Len(limpia), max_length))

sanitizar_pregunta(pregunta, max_length) ==
    LET limpia == SelectSeq(Strip(pregunta), Permitido)
    IN  SubSeq(limpia, 1, Min(Len(limpia), max_length))

----------------------------------------------------------------------------
(* The circuit breaker of the circuitbreaker package, as applied by        *)
(* @circuit(failure_threshold, recovery_timeout).                          *)

CBNew == [state |-> "closed", failure_count |-> 0, opened |-> 0]

\* variant: the timeout must be exceeded, not just reached
CBStateStrict(cb, t, timeout) ==
    IF cb.state = "open" /\ (cb.opened + timeout) - t < 0
    THEN "half_open" ELSE cb.state

\* CircuitBreaker.state: an open breaker whose timeout elapsed reads half_open
CBState(cb, t, timeout) ==
    IF cb.state = "open" /\ (cb.opened + timeout) - t <= 0
    THEN "half_open" ELSE cb.state

\* CircuitBreaker.opened
CBOpened(cb, t, timeout) == CBState(cb, t, timeout) = "open"

\* variant: opens one failure late
CBCallFailedLate(cb, t, threshold) ==
    LET c == cb.failure_count + 1
    IN  IF c > threshold
        THEN [state |-> "open", failure_count |-> c, opened |-> t]
        ELSE [cb EXCEPT !.failure_count = c]

\* CircuitBreaker.__call_failed
CBCallFailed(cb, t, threshold) ==
    LET c == cb.failure_count + 1
    IN  IF c >= threshold
        THEN [state |-> "open", failure_count |-> c, opened |-> t]
        ELSE [cb EXCEPT !.failure_count = c]

\* variant: a success closes the breaker but keeps the count
CBCallSucceededNoReset(cb) == [cb EXCEPT !.state = "closed"]

\* CircuitBreaker.__call_succeeded
CBCallSucceeded(cb) == [cb EXCEPT !.state = "closed", !.failure_count = 0]

----------------------------------------------------------------------------
(* conectar_supabase: backoff (max_tries on HTTPError) around the latency  *)
(* timer around the circuit breaker around the function body.  outs[i] is  *)
(* the outcome of the i-th run of the body: "ok", "http" (HTTPError) or    *)
(* "error" (any other exception, the validation errors included).          *)

ConnOutcomes == {"ok", "http", "error"}

\* variant: backoff retries after every exception, on_exception(expo, Exception)
RECURSIVE ConnTryTodo(_, _, _, _)
ConnTryTodo(cb, t, outs, i) ==
    IF CBOpened(cb, t, CONN_RECOVERY_TIMEOUT)
    THEN IF i < CONN_MAX_TRIES
         THEN LET r == ConnTryTodo(cb, t, outs, i + 1)
              IN  [r EXCEPT !.rechazos = @ + 1, !.calls = @ - 1]
         ELSE [cb |-> cb, ok |-> FALSE, error |-> "CircuitBreakerError",
               calls |-> i - 1, rechazos |-> 1]
    ELSE IF outs[i] = "ok"
    THEN [cb |-> CBCallSucceeded(cb), ok |-> TRUE, error |-> "none", calls |-> i,
          rechazos |-> 0]
    ELSE LET failed == CBCallFailed(cb, t, CONN_FAILURE_THRESHOLD)
         IN  IF i < CONN_MAX_TRIES
             THEN ConnTryTodo(failed, t, outs, i + 1)
             ELSE [cb |-> failed, ok |-> FALSE,
                   error |-> IF outs[i] = "http" THEN "HTTPError" ELSE "ConnError",
                   calls |-> i, rechazos |-> 0]

\* the breaker's test when a try starts: an open circuit rejects it
ConnRechazada(cb, t) == CBOpened(cb, t, CONN_RECOVERY_TIMEOUT)

\* the end of the i-th run of the body: the breaker counts the outcome, and
\* backoff tries again (after sleeping) on an HTTPError before max_tries
ConnSalida(cb, t, out, i) ==
    IF out = "ok"
    THEN [cb |-> CBCallSucceeded(cb), ok |-> TRUE, error |-> "none", retry |-> FALSE]
    ELSE [cb |-> CBCallFailed(cb, t, CONN_FAILURE_THRESHOLD), ok |-> FALSE,
          error |-> IF out = "http" THEN "HTTPError" ELSE "ConnError",
          retry |-> out = "http" /\ i < CONN_MAX_TRIES]

\* the i-th try of a call that no other call interleaves with: calls counts
\* the runs of the body, rechazos the rejections by the open circuit
RECURSIVE ConnTry(_, _, _, _)
ConnTry(cb, t, outs, i) ==
    IF ConnRechazada(cb, t)
    THEN \* CircuitBreakerError is not an HTTPError: backoff lets it through
         [cb |-> cb, ok |-> FALSE, error |-> "CircuitBreakerError", calls |-> i - 1,
          rechazos |-> 1]
    ELSE LET s == ConnSalida(cb, t, outs[i], i)
         IN  IF s.retry
             THEN ConnTry(s.cb, t, outs, i + 1)
             ELSE [cb |-> s.cb, ok |-> s.ok, error |-> s.error, calls |-> i,
                   rechazos |-> 0]

conectar_supabase(cb, t, outs) == ConnTry(cb, t, outs, 1)

----------------------------------------------------------------------------
(* numpy computes the similarity in IEEE-754 binary64: sqrt, * and / each  *)
(* round their exact result to the nearest double, ties to even.  A double *)
(* is the record [s, m, e] of value s * m * 2^e with s in {-1, 0, 1} and   *)
(* 2^52 <= m < 2^53; 0.0 is [0, <<>>, 0], and the result of a division by  *)
(* 0.0 (nan, inf, -inf) is [s, <<>>, 1].  The 53-bit m does not fit a      *)
(* machine integer of the checker, so naturals are little-endian sequences *)
(* of 15-bit limbs without leading zero limbs (0 is <<>>).                 *)

Base == 2 ^ 15

Limb(a, i) == IF 1 <= i /\ i <= Len(a) THEN a[i] ELSE 0

\* a without its leading zero limbs
BigTrim(a) ==
    SubSeq(a, 1, Cardinality({i \in 1..Len(a) : \E j \in i..Len(a) : a[j] # 0}))

\* a > b
BigGt(a, b) ==
    \/ Len(a) > Len(b)
    \/ /\ Len(a) = Len(b)
       /\ \E i \in 1..Len(a) : a[i] > b[i] /\ \A j \in (i + 1)..Len(a) : a[j] = b[j]

\* limb i of a + b takes a carry: a lower limb overflows and every limb
\* between passes the carry on
BigCarry(a, b, i) ==
    \E j \in 1..(i - 1) :
        /\ Limb(a, j) + Limb(b, j) >= Base
        /\ \A k \in (j + 1)..(i - 1) : Limb(a, k) + Limb(b, k) = Base - 1

BigAdd(a, b) ==
    BigTrim([i \in 1..(Len(a) + Len(b) + 1) |->
                (Limb(a, i) + Limb(b, i) + IF BigCarry(a, b, i) THEN 1 ELSE 0) % Base])

\* limb i of a - b gives a borrow
BigBorrow(a, b, i) ==
    \E j \in 1..(i - 1) :
        a[j] < Limb(b, j) /\ \A k \in (j + 1)..(i - 1) : a[k] = Limb(b, k)

\* a - b for a >= b
BigSub(a, b) ==
    BigTrim([i \in 1..Len(a) |->
                (a[i] - Limb(b, i) - IF BigBorrow(a, b, i) THEN 1 ELSE 0) % Base])

\* a * k for 0 <= k < Base
BigMulSmall(a, k) ==
    BigAdd([i \in 1..Len(a) |-> (a[i] * k) % Base],
           [i \in 1..(Len(a) + 1) |-> (Limb(a, i - 1) * k) \div Base])

\* a times the j most significant limbs of b
RECURSIVE BigMulTop(_, _, _)
BigMulTop(a, b, j) ==
    IF j = 0 THEN <<>>
    ELSE BigAdd(BigTrim(<<0>> \o BigMulTop(a, b, j - 1)),
                BigMulSmall(a, b[Len(b) - j + 1]))

BigMul(a, b) == BigMulTop(a, b, Len(b))

\* a * 2^k
BigShl(a, k) ==
    BigTrim([i \in 1..(k \div 15) |-> 0]
            \o [i \in 1..(Len(a) + 1) |->
                   ((Limb(a, i) * 2 ^ (k % 15)) % Base)
                   + ((Limb(a, i - 1) * 2 ^ (k % 15)) \div Base)])

\* a \div 2^k
BigShr(a, k) ==
    BigTrim([i \in 1..(Len(a) - (k \div 15)) |->
                (a[i + (k \div 15)] \div 2 ^ (k % 15))
                + ((Limb(a, i + (k \div 15) + 1) % 2 ^ (k % 15)) * 2 ^ (15 - (k % 15)))])

\* number of binary digits of a
BigBitLen(a) ==
    IF a = <<>> THEN 0
    ELSE 15 * (Len(a) - 1) + Cardinality({k \in 0..14 : 2 ^ k <= a[Len(a)]})

(* Schoolbook long division of a by d, both shifted so that the top limb   *)
(* of the divisor dn is at least Base / 2.  One step brings down a limb of *)
(* the dividend: cur is the remainder so far with that limb appended,      *)
(* cur < dn * Base.                                                        *)

\* the quotient digit, at most two below its estimate top
BigDivDigit(dn, cur, top) ==
    CHOOSE g \in {top - 2, top - 1, top} :
        /\ g >= 0
        /\ ~BigGt(BigMulSmall(dn, g), cur)
        /\ g = top \/ BigGt(BigMulSmall(dn, g + 1), cur)

\* the estimate from the two top limbs of cur and the top limb of dn
BigDivTop(dn, cur) ==
    Min(Base - 1,
        (Limb(cur, Len(dn) + 1) * Base + Limb(cur, Len(dn))) \div dn[Len(dn)])

BigDivStep(dn, cur, q, digit) ==
    [q |-> <<digit>> \o q, rem |-> BigSub(cur, BigMulSmall(dn, digit))]

\* prev with the next limb of the dividend brought down; the digit is 0
\* when the remainder so far and the limb are both 0
BigDivBring(dn, limb, prev) ==
    IF prev.rem = <<>> /\ limb = 0 THEN [q |-> <<0>> \o prev.q, rem |-> <<>>]
    ELSE BigDivStep(dn, BigTrim(<<limb>> \o prev.rem), prev.q,
                    BigDivDigit(dn, BigTrim(<<limb>> \o prev.rem),
                                BigDivTop(dn, BigTrim(<<limb>> \o prev.rem))))

\* the quotient digits (least significant first) and the remainder of the
\* k most significant limbs of an; fewer limbs than dn has need no division
RECURSIVE BigDivTopLimbs(_, _, _)
BigDivTopLimbs(an, dn, k) ==
    IF k < Len(dn) THEN [q |-> <<>>, rem |-> BigTrim(SubSeq(an, Len(an) - k + 1, Len(an)))]
    ELSE BigDivBring(dn, an[Len(an) - k + 1], BigDivTopLimbs(an, dn, k - 1))

BigDivNorm(an, dn) == [BigDivTopLimbs(an, dn, Len(an)) EXCEPT !.q = BigTrim(@)]

\* [q |-> a \div d, rem |-> (a % d) * 2^sh] for the normalising shift sh
BigDiv(a, d) ==
    BigDivNorm(BigShl(a, 15 * Len(d) - BigBitLen(d)), BigShl(d, 15 * Len(d) - BigBitLen(d)))

(* The integer square root of a >= 1, by Newton's iteration from a power   *)
(* of two above it: the iterates decrease until the root is reached, and   *)
(* one step for each binary digit of the number of digits of a is enough.  *)

BigSqrtNext(x, q) == IF ~BigGt(x, q) THEN x ELSE BigShr(BigAdd(x, q), 1)

BigSqrtStep(a, x) == BigSqrtNext(x, BigDiv(a, x).q)

RECURSIVE BigSqrtIter(_, _)
BigSqrtIter(a, k) ==
    IF k = 0 THEN BigShl(<<1>>, (BigBitLen(a) + 1) \div 2)
    ELSE BigSqrtStep(a, BigSqrtIter(a, k - 1))

BigSqrt(a) == BigSqrtIter(a, BigBitLen(<<BigBitLen(a)>>))

\* 0.0
ZeroScore == [s |-> 0, m |-> <<>>, e |-> 0]

\* q * 2^e for 2^52 <= q <= 2^53
FlPack(q, e) ==
    IF BigBitLen(q) > 53 THEN [s |-> 1, m |-> BigShr(q, 1), e |-> e + 1]
    ELSE [s |-> 1, m |-> q, e |-> e]

\* round to nearest, ties to even: kept the 53 leading bits, low the bits
\* dropped, half the weight of the first of them; sticky: the exact value
\* has more bits below those
FlRoundUp(kept, low, half, sticky) ==
    BigGt(low, half) \/ (low = half /\ (sticky \/ kept[1] % 2 = 1))

FlRoundKept(m, kept, sticky, e, sh) ==
    FlPack(IF FlRoundUp(kept, BigSub(m, BigShl(kept, sh)), BigShl(<<1>>, sh - 1), sticky)
           THEN BigAdd(kept, <<1>>) ELSE kept,
           e + sh)

FlRoundBits(m, sticky, e, sh) ==
    IF sh <= 0 THEN [s |-> 1, m |-> BigShl(m, -sh), e |-> e + sh]
    ELSE FlRoundKept(m, BigShr(m, sh), sticky, e, sh)

\* the double nearest to m * 2^e, plus a positive fraction of 2^e if sticky
FlRound(m, sticky, e) == FlRoundBits(m, sticky, e, BigBitLen(m) - 53)

FlSqrtRound(scaled, root, t) == FlRound(root, BigMul(root, root) # scaled, -t)

FlSqrtScaled(scaled, t) == FlSqrtRound(scaled, BigSqrt(scaled), t)

\* np.linalg.norm of a vector whose squares sum to 0 <= n < Base: sqrt(n),
\* from the integer root of n * 2^(2t), which has 54 binary digits
FlSqrt(n) ==
    IF n = 0 THEN ZeroScore
    ELSE FlSqrtScaled(BigShl(<<n>>, 2 * ((108 - BigBitLen(<<n>>)) \div 2)),
                      (108 - BigBitLen(<<n>>)) \div 2)

\* x * y for doubles x, y >= 0
FlMul(x, y) ==
    IF x = ZeroScore \/ y = ZeroScore THEN ZeroScore
    ELSE FlRound(BigMul(x.m, y.m), FALSE, x.e + y.e)

FlDivRound(d, e) == FlRound(d.q, d.rem # <<>>, e)

\* a / y for the integer 0 < a < Base and the double y > 0, from the
\* quotient of a * 2^sh by the mantissa of y, which has 54 binary digits or
\* more
FlDivNat(a, y) ==
    FlDivRound(BigDiv(BigShl(<<a>>, 108 - BigBitLen(<<a>>)), y.m),
               0 - (108 - BigBitLen(<<a>>)) - y.e)

\* num / y for the integer -Base < num < Base and the double y >= 0
FlDivInt(num, y) ==
    IF y = ZeroScore
    THEN [s |-> IF num < 0 THEN -1 ELSE IF num > 0 THEN 1 ELSE 0, m |-> <<>>, e |-> 1]
    ELSE IF num = 0 THEN ZeroScore
    ELSE IF num < 0 THEN [FlDivNat(-num, y) EXCEPT !.s = -1]
    ELSE FlDivNat(num, y)

----------------------------------------------------------------------------
(* Cosine similarity and ranking.  Vectors are tuples of integers, so the  *)
(* dot product and the sum of squares under the norm are exact; the two    *)
(* square roots, their product and the quotient are rounded as numpy       *)
(* rounds them.  A score is the resulting double.                          *)

RECURSIVE Dot(_, _)
Dot(v1, v2) ==
    IF v1 = <<>> \/ v2 = <<>> THEN 0
    ELSE Head(v1) * Head(v2) + Dot(Tail(v1), Tail(v2))

NormSq(v) == Dot(v, v)

\* the sums of squares whose roots and quotients are worked out once: those
\* of the vectors of at most MaxDim components in {-1, 0, 1}, and of the
\* rows <<2, 2>> and <<3, 3>>
NormasTabuladas == 1..(MaxDim + 1) \cup {8, 18}

\* the entry of tabla under clave, or otro when it has none
Tabulado(tabla, clave, otro) ==
    IF \E p \in tabla : p[1] = clave THEN (CHOOSE p \in tabla : p[1] = clave)[2]
    ELSE otro

Raices == { <<n, FlSqrt(n)>> : n \in NormasTabuladas }

\* np.linalg.norm(v) for NormSq(v) = n
Norma(n) == Tabulado(Raices, n, FlSqrt(n))

\* np.dot(v1, v2) / (norm_v1 * norm_v2) for the dot product num
Cociente(num, norm_v1, norm_v2) == FlDivInt(num, FlMul(norm_v1, norm_v2))

\* the quotients by dot product and sums of squares
Cocientes ==
    { <<t, Cociente(t[1], Norma(t[2]), Norma(t[3]))>> :
        t \in { u \in (-18..18) \X (1..(MaxDim + 1)) \X NormasTabuladas :
                   u[1] * u[1] <= u[2] * u[3] } }

\* the body of similitud_coseno once both norms are known
Similitud(v1, v2, norm_v1, norm_v2) ==
    IF norm_v1 = ZeroScore \/ norm_v2 = ZeroScore
    THEN [ok |-> TRUE, score |-> ZeroScore]
    ELSE IF Len(v1) # Len(v2)
    THEN [ok |-> FALSE, score |-> ZeroScore]
    ELSE [ok |-> TRUE,
          score |-> Tabulado(Cocientes, <<Dot(v1, v2), NormSq(v1), NormSq(v2)>>,
                             Cociente(Dot(v1, v2), norm_v1, norm_v2))]

\* variant: only the norm of the first vector is tested before dividing
similitud_sin_norma_v2(v1, v2) ==
    IF Norma(NormSq(v1)) = ZeroScore
    THEN [ok |-> TRUE, score |-> ZeroScore]
    ELSE IF Len(v1) # Len(v2)
    THEN [ok |-> FALSE, score |-> ZeroScore]
    ELSE [ok |-> TRUE,
          score |-> Cociente(Dot(v1, v2), Norma(NormSq(v1)), Norma(NormSq(v2)))]

\* result: [ok, score]; ok = FALSE is the ValueError numpy raises for
\* operands of different length
similitud_coseno(v1, v2) == Similitud(v1, v2, Norma(NormSq(v1)), Norma(NormSq(v2)))

\* s1 > s2 for finite doubles
ScoreGt(s1, s2) ==
    IF s1.s # s2.s THEN s1.s > s2.s
    ELSE IF s1.s > 0 THEN s1.e > s2.e \/ (s1.e = s2.e /\ BigGt(s1.m, s2.m))
    ELSE s1.s < 0 /\ (s1.e < s2.e \/ (s1.e = s2.e /\ BigGt(s2.m, s1.m)))

\* variant: a row goes before the rows of equal score already placed
RECURSIVE InsertDescInestable(_, _)
InsertDescInestable(sorted, x) ==
    IF sorted = <<>> THEN <<x>>
    ELSE IF ~ScoreGt(Head(sorted).score, x.score) THEN <<x>> \o sorted
    ELSE <<Head(sorted)>> \o InsertDescInestable(Tail(sorted), x)

\* list.sort(key=score, reverse=True): stable, descending
RECURSIVE InsertDesc(_, _)
InsertDesc(sorted, x) ==
    IF sorted = <<>> THEN <<x>>
    ELSE IF ScoreGt(x.score, Head(sorted).score) THEN <<x>> \o sorted
    ELSE <<Head(sorted)>> \o InsertDesc(Tail(sorted), x)

\* variant: the rows are taken in the order the search returned them
SortNada(rs) == rs

RECURSIVE SortDesc(_)
SortDesc(rs) ==
    IF rs = <<>> THEN <<>>
    ELSE InsertDesc(SortDesc(SubSeq(rs, 1, Len(rs) - 1)), rs[Len(rs)])

\* str.split(): the maximal runs of non-whitespace characters
RECURSIVE Split(_)
Split(s) ==
    LET t == LStrip(s)
    IN  IF t = <<>> THEN <<>>
        ELSE LET n == CHOOSE j \in 1..Len(t) :
                          /\ \A i \in 1..j : t[i] \notin SpaceChars
                          /\ (j = Len(t) \/ t[j + 1] \in SpaceChars)
             IN  <<SubSeq(t, 1, n)>> \o Split(SubSeq(t, n + 1, Len(t)))

\* sep.join(parts)
RECURSIVE Join(_, _)
Join(sep, parts) ==
    IF parts = <<>> THEN <<>>
    ELSE IF Len(parts) = 1 THEN parts[1]
    ELSE parts[1] \o sep \o Join(sep, Tail(parts))

\* variant: the limit is applied to characters, contexto[:max_palabras]
truncar_caracteres(contexto, max_palabras) ==
    SubSeq(contexto, 1, Min(max_palabras, Len(contexto)))

truncar_contexto(contexto, max_palabras) ==
    LET palabras == Split(contexto)
    IN  IF Len(palabras) > max_palabras
        THEN Join(<<" ">>, SubSeq(palabras, 1, max_palabras))
        ELSE contexto

\* a row is [es_lista, embedding_vector, contenido]; es_lista = FALSE stands
\* for a missing, null or non-list embedding_vector.  The vector is usable
\* when it is a non-empty list.
\* variant: isinstance(embedding, list), an empty list passes
EmbeddingEsLista(doc) == doc.es_lista

EmbeddingValido(doc) == doc.es_lista /\ doc.embedding_vector # <<>>

\* resultados.append((score, contenido)) for a scored row, ahead of the rows
\* after it; a dimension mismatch raises out of the loop
PuntuarFila(doc, sim, resto) ==
    IF ~sim.ok \/ ~resto.ok
    THEN [ok |-> FALSE, resultados |-> <<>>]
    ELSE [ok |-> TRUE,
          resultados |-> <<[score |-> sim.score, contenido |-> doc.contenido]>>
                         \o resto.resultados]

\* the loop over response.data: [ok, resultados]
RECURSIVE Puntuar(_, _)
Puntuar(pregunta_vector, data) ==
    IF data = <<>> THEN [ok |-> TRUE, resultados |-> <<>>]
    ELSE IF EmbeddingValido(Head(data))
    THEN PuntuarFila(Head(data),
                     similitud_coseno(pregunta_vector, Head(data).embedding_vector),
                     Puntuar(pregunta_vector, Tail(data)))
    ELSE Puntuar(pregunta_vector, Tail(data))

\* variant: k rows are requested
VectorSearchParamsK(pregunta_vector, k) ==
    [query_embedding |-> pregunta_vector, match_count |-> k]

\* the parameters of the vector_search RPC
VectorSearchParams(pregunta_vector, k) ==
    [query_embedding |-> pregunta_vector, match_count |-> k * 2]

\* resultados[:k]
TopK(resultados, k) == SubSeq(resultados, 1, Min(k, Len(resultados)))

\* what the function did before it returned or raised: embedInputs are the
\* texts passed to openai.Embedding.create, rpc the parameters of the
\* vector_search calls, in order
CtxResult(ok, contexto, error, embedInputs, rpc) ==
    [ok |-> ok, contexto |-> contexto, error |-> error,
     embedCalls |-> Len(embedInputs), searchCalls |-> Len(rpc),
     embedInputs |-> embedInputs, rpc |-> rpc]

\* variant: a search without usable rows is an error
ContextoVacioError(pregunta, rpc) ==
    CtxResult(FALSE, <<>>, "ValueError", <<pregunta>>, rpc)

\* return "": the search returned no rows, or none with a usable embedding
ContextoVacio(pregunta, rpc) == CtxResult(TRUE, <<>>, "none", <<pregunta>>, rpc)

\* the k best of the scored rows, joined and truncated
ContextoTop(pregunta, rpc, top) ==
    CtxResult(TRUE,
              truncar_contexto(Join(<<"\n", "\n">>,
                                    [i \in 1..Len(top) |-> top[i].contenido]),
                               MAX_PALABRAS),
              "none", <<pregunta>>, rpc)

\* what follows the loop whose outcome is p: the sort, the cut and the join
ContextoPuntuado(pregunta, rpc, p, k) ==
    IF ~p.ok
    THEN CtxResult(FALSE, <<>>, "ValueError", <<pregunta>>, rpc)
    ELSE IF p.resultados = <<>>
    THEN ContextoVacio(pregunta, rpc)
    ELSE ContextoTop(pregunta, rpc, TopK(SortDesc(p.resultados), k))

\* embOut: [ok, vector], the outcome of openai.Embedding.create; searchOut:
\* [ok, data], the outcome of the vector_search RPC.  Result: [ok, contexto,
\* error, embedCalls, searchCalls, embedInputs, rpc].
obtener_contexto_relevante(pregunta, embOut, searchOut, k) ==
    IF ~embOut.ok
    THEN CtxResult(FALSE, <<>>, "EmbeddingError", <<pregunta>>, <<>>)
    ELSE IF ~searchOut.ok
    THEN CtxResult(FALSE, <<>>, "SearchError", <<pregunta>>,
                   <<VectorSearchParams(embOut.vector, k)>>)
    ELSE IF searchOut.data = <<>>
    THEN ContextoVacio(pregunta, <<VectorSearchParams(embOut.vector, k)>>)
    ELSE ContextoPuntuado(pregunta, <<VectorSearchParams(embOut.vector, k)>>,
                          Puntuar(embOut.vector, searchOut.data), k)

----------------------------------------------------------------------------
(* responder_con_gpt behind @circuit (outermost) and the latency timer.    *)
(* gptOut is the outcome of the completion call: [ok, text, error], text   *)
(* the content of the completion and error the class of the exception the  *)
(* call raised.  A content is the sequence of its pieces: a whitespace     *)
(* character is a piece of its own, the other pieces are runs of           *)
(* characters that neither start nor end with whitespace.  Result:         *)
(* [cb, ok, respuesta, error, attempted, observed].                        *)

\* the string a sequence of pieces spells
RECURSIVE Texto(_)
Texto(piezas) ==
    IF piezas = <<>> THEN "" ELSE Head(piezas) \o Texto(Tail(piezas))

\* variant: the latency is observed only when the completion call returns
GptSalidaSinTimer(cb, t, gptOut) ==
    IF gptOut.ok
    THEN [cb |-> CBCallSucceeded(cb), ok |-> TRUE, respuesta |-> Texto(Strip(gptOut.text)),
          error |-> "none", attempted |-> 1, observed |-> 1]
    ELSE [cb |-> CBCallFailed(cb, t, GPT_FAILURE_THRESHOLD), ok |-> FALSE,
          respuesta |-> "", error |-> gptOut.error, attempted |-> 1, observed |-> 0]

\* the call once the breaker let it through: the timer observes the latency
\* of the body whether it returns or raises, and the breaker counts the
\* outcome when the call ends
GptSalida(cb, t, gptOut) ==
    IF gptOut.ok
    THEN [cb |-> CBCallSucceeded(cb), ok |-> TRUE, respuesta |-> Texto(Strip(gptOut.text)),
          error |-> "none", attempted |-> 1, observed |-> 1]
    ELSE [cb |-> CBCallFailed(cb, t, GPT_FAILURE_THRESHOLD), ok |-> FALSE,
          respuesta |-> "", error |-> gptOut.error, attempted |-> 1, observed |-> 1]

\* the breaker's test on entry: an open circuit rejects the call
GptRechazada(cb, t) == CBOpened(cb, t, GPT_RECOVERY_TIMEOUT)

responder_con_gpt(cb, t, gptOut) ==
    IF GptRechazada(cb, t)
    THEN [cb |-> cb, ok |-> FALSE, respuesta |-> "", error |-> "CircuitBreakerError",
          attempted |-> 0, observed |-> 0]
    ELSE GptSalida(cb, t, gptOut)

----------------------------------------------------------------------------
(* responder_pregunta.  The observation of a request records what it       *)
(* returned and which collaborators it called: connCalls counts runs of    *)
(* the body of conectar_supabase, genCalls calls of responder_con_gpt,     *)
(* gptCalls invocations of the completion API, latencyObs the observations *)
(* the request added to GPT_RESPONSE_LATENCY.  path is "invalid", "hit",   *)
(* "generated", "failed", or "raised" when an exception left the function. *)

Obs(key, result, path, error, contexto, conn, emb, search, gen, gpt, lat, reads, writes) ==
    [key |-> key, result |-> result, path |-> path, error |-> error,
     contexto |-> contexto, connCalls |-> conn, embedCalls |-> emb,
     searchCalls |-> search, genCalls |-> gen, gptCalls |-> gpt,
     latencyObs |-> lat, cacheReads |-> reads, cacheWrites |-> writes]

NoObs == Obs(<<>>, "", "none", "none", <<>>, 0, 0, 0, 0, 0, 0, 0, 0)

\* the classes derived from Exception among the errors of the collaborators
ExceptionClasses ==
    {"CircuitBreakerError", "HTTPError", "ConnError", "EmbeddingError",
     "SearchError", "ValueError", "OpenAIError"}

\* variant: except (OpenAIError, HTTPError) as e
CapturadaSoloApi(exc) == exc \in {"OpenAIError", "HTTPError"}

\* except Exception as e
Capturada(exc) == exc \in ExceptionClasses

\* variant: the except clause returns the text of the exception
MensajeConTexto(exc) == exc

\* the value the except clause returns
MensajeDeFallo(exc) == MSG_ERROR

\* variant: the except clause stores the message it returns
CacheConFallo(c, key) ==
    [q \in DOMAIN c \cup {key} |-> IF q = key THEN MSG_ERROR ELSE c[q]]

\* the cache after a request that ended in the except clause
CacheTrasFallo(c, key) == c

\* variant: an entry stored meanwhile is kept (dict.setdefault)
CachePutSiFalta(c, key, respuesta) ==
    IF key \in DOMAIN c THEN c
    ELSE [q \in DOMAIN c \cup {key} |-> IF q = key THEN respuesta ELSE c[q]]

\* variant: a cache of one entry, the newest answer evicts the others
CachePutUno(c, key, respuesta) == [q \in {key} |-> respuesta]

\* variant: the answer is not stored
CachePutNada(c, key, respuesta) == c

\* _respuestas_cache[pregunta] = respuesta
CachePut(c, key, respuesta) ==
    [q \in DOMAIN c \cup {key} |-> IF q = key THEN respuesta ELSE c[q]]

\* pregunta in _respuestas_cache
CacheHit(c, key) == key \in DOMAIN c

\* variant: every exception caught by the except clause counts as a
\* failure of the generation breaker
FalloCuentaTodo(key, c, ccb, gcb, exc, contexto, conn, emb, search, gen, gpt, lat) ==
    IF Capturada(exc)
    THEN [cache |-> CacheTrasFallo(c, key), connCB |-> ccb,
          gptCB |-> CBCallFailed(gcb, gcb.opened, GPT_FAILURE_THRESHOLD),
          obs |-> Obs(key, MensajeDeFallo(exc), "failed", exc, contexto,
                      conn, emb, search, gen, gpt, lat, 1, 0)]
    ELSE [cache |-> c, connCB |-> ccb, gptCB |-> gcb,
          obs |-> Obs(key, "", "raised", exc, contexto,
                      conn, emb, search, gen, gpt, lat, 1, 0)]

\* the outcome of the try block when exc was raised in it
Fallo(key, c, ccb, gcb, exc, contexto, conn, emb, search, gen, gpt, lat) ==
    IF Capturada(exc)
    THEN [cache |-> CacheTrasFallo(c, key), connCB |-> ccb, gptCB |-> gcb,
          obs |-> Obs(key, MensajeDeFallo(exc), "failed", exc, contexto,
                      conn, emb, search, gen, gpt, lat, 1, 0)]
    ELSE [cache |-> c, connCB |-> ccb, gptCB |-> gcb,
          obs |-> Obs(key, "", "raised", exc, contexto,
                      conn, emb, search, gen, gpt, lat, 1, 0)]

\* the try block once its three calls have returned conn, ctx and gpt: the
\* first failure ends it, otherwise the answer is cached and returned
PipelineDe(key, c, gcb, conn, ctx, gpt) ==
    IF ~conn.ok
    THEN Fallo(key, c, conn.cb, gcb, conn.error, <<>>, conn.calls, 0, 0, 0, 0, 0)
    ELSE IF ~ctx.ok
    THEN Fallo(key, c, conn.cb, gcb, ctx.error, <<>>,
               conn.calls, ctx.embedCalls, ctx.searchCalls, 0, 0, 0)
    ELSE IF ~gpt.ok
    THEN Fallo(key, c, conn.cb, gpt.cb, gpt.error, ctx.contexto,
               conn.calls, ctx.embedCalls, ctx.searchCalls,
               1, gpt.attempted, gpt.observed)
    ELSE [cache |-> CachePut(c, key, gpt.respuesta), connCB |-> conn.cb,
          gptCB |-> gpt.cb,
          obs |-> Obs(key, gpt.respuesta, "generated", "none", ctx.contexto,
                      conn.calls, ctx.embedCalls, ctx.searchCalls,
                      1, gpt.attempted, gpt.observed, 1, 1)]

\* the try block: connection, context, generation, cache write
Pipeline(key, c, ccb, gcb, t, connOuts, embOut, searchOut, gptOut) ==
    PipelineDe(key, c, gcb, conectar_supabase(ccb, t, connOuts),
               obtener_contexto_relevante(key, embOut, searchOut, TOP_K),
               responder_con_gpt(gcb, t, gptOut))

\* variant: the emptiness test is made on the question as received
EsVaciaSinSanitizar(pregunta, key) == pregunta = <<>>

\* if not pregunta
EsVacia(pregunta, key) == key = <<>>

\* variant: the cache is consulted only while the generation circuit is not
\* open
responder_si_circuito_cerrado(pregunta, c, ccb, gcb, t, connOuts, embOut, searchOut, gptOut) ==
    LET key == sanitizar_pregunta(pregunta, MAX_LENGTH)
    IN  IF EsVacia(pregunta, key)
        THEN [cache |-> c, connCB |-> ccb, gptCB |-> gcb,
              obs |-> Obs(key, MSG_INVALIDA, "invalid", "none", <<>>,
                          0, 0, 0, 0, 0, 0, 0, 0)]
        ELSE IF CacheHit(c, key) /\ ~CBOpened(gcb, t, GPT_RECOVERY_TIMEOUT)
        THEN [cache |-> c, connCB |-> ccb, gptCB |-> gcb,
              obs |-> Obs(key, c[key], "hit", "none", <<>>,
                          0, 0, 0, 0, 0, 0, 1, 0)]
        ELSE Pipeline(key, c, ccb, gcb, t, connOuts, embOut, searchOut, gptOut)

responder_pregunta(pregunta, c, ccb, gcb, t, connOuts, embOut, searchOut, gptOut) ==
    LET key == sanitizar_pregunta(pregunta, MAX_LENGTH)
    IN  IF EsVacia(pregunta, key)
        THEN [cache |-> c, connCB |-> ccb, gptCB |-> gcb,
              obs |-> Obs(key, MSG_INVALIDA, "invalid", "none", <<>>,
                          0, 0, 0, 0, 0, 0, 0, 0)]
        ELSE IF CacheHit(c, key)
        THEN [cache |-> c, connCB |-> ccb, gptCB |-> gcb,
              obs |-> Obs(key, c[key], "hit", "none", <<>>,
                          0, 0, 0, 0, 0, 0, 1, 0)]
        ELSE Pipeline(key, c, ccb, gcb, t, connOuts, embOut, searchOut, gptOut)

----------------------------------------------------------------------------
(* Inputs *)

\* raw questions: one that sanitizes to the empty string and two that
\* sanitize to the same string
Questions == { <<"!">>, <<"a", "?">>, <<" ", "a", "!", "?">> }

\* raw questions with two distinct sanitized forms
QuestionsGen == { <<"a", "?">>, <<" ", "a", "!", "?">>, <<"b">> }

ConnOk == <<"ok", "ok", "ok">>

\* outcomes of the successive runs of the body of conectar_supabase; a run
\* happens only after an HTTPError of the previous one
ConnOutSeqs ==
    { <<"ok", "ok", "ok">>, <<"error", "ok", "ok">>,
      <<"http", "ok", "ok">>, <<"http", "http", "http">> }

QueryVector == <<1, 0>>

EmbOuts == { [ok |-> FALSE, vector |-> <<>>], [ok |-> TRUE, vector |-> QueryVector] }

DocA == [es_lista |-> TRUE, embedding_vector |-> <<1, 0>>, contenido |-> <<"a">>]
DocB == [es_lista |-> TRUE, embedding_vector |-> <<1, 1>>, contenido |-> <<"b">>]
DocNull == [es_lista |-> FALSE, embedding_vector |-> <<>>, contenido |-> <<"a", "b">>]
DocLong == [es_lista |-> TRUE, embedding_vector |-> <<1, 0, 0>>, contenido |-> <<"b", "a">>]

SearchOuts ==
    { [ok |-> FALSE, data |-> <<>>],
      [ok |-> TRUE, data |-> <<>>],
      [ok |-> TRUE, data |-> <<DocNull>>],
      [ok |-> TRUE, data |-> <<DocB, DocNull, DocA>>],
      [ok |-> TRUE, data |-> <<DocA, DocLong>>] }

\* no completion: the call raised OpenAIError, or was not made
GptFallo == [ok |-> FALSE, text |-> <<>>, error |-> "OpenAIError"]

\* contents of a completion: "R1", "R2", and " R1 \n" with whitespace around
Completions == { <<"R1">>, <<"R2">>, <<" ", "R1", " ", "\n">> }

\* the answers the completions carry
Answers == {"R1", "R2"}

GptOuts == [ok : {TRUE}, text : Completions, error : {"none"}] \cup { GptFallo }

Workers == {1, 2}

NoLoc == [key |-> <<>>, vector |-> <<>>, contexto |-> <<>>, respuesta |-> "",
          obs |-> NoObs]

\* no vector search was made
NoSearch == [called |-> FALSE, filas |-> 0, validas |-> 0]

\* no function was called directly
\* the chats the bot talks to, and the empty dict user_data starts as
Chats == {1, 2}
SinDatos == [k \in {} |-> ""]

NoArgs == [fn |-> "none"]
NoRet == [done |-> FALSE]

----------------------------------------------------------------------------
(* Sequential execution: each request runs to completion.                  *)

\* the module as loaded, and the arguments of the direct call, if one is made
InitCall(calls) ==
    /\ cache = <<>>
    /\ gptCB = CBNew
    /\ connCB = CBNew
    /\ now = 0
    /\ answered = <<>>
    /\ gptHist = [fails |-> 0, failedAt |-> 0]
    /\ last = NoObs
    /\ seq = 0
    /\ pc = [w \in Workers |-> "idle"]
    /\ loc = [w \in Workers |-> NoLoc]
    /\ lastSearch = NoSearch
    /\ args \in calls
    /\ ret = NoRet
    /\ user_data = [chat \in Chats |-> SinDatos]

Init == InitCall({ NoArgs })

\* history: the first generated answer returned for each sanitized question
Record(o) ==
    IF o.path = "generated" /\ o.key \notin DOMAIN answered
    THEN [q \in DOMAIN answered \cup {o.key} |->
              IF q = o.key THEN o.result ELSE answered[q]]
    ELSE answered

\* history: the failed completion calls since the latest successful one,
\* and the time of the latest failure that was the third or later in a row
RecordGpt(h, attempted, ok, t) ==
    IF attempted = 0 THEN h
    ELSE IF ok THEN [h EXCEPT !.fails = 0]
    ELSE [fails |-> h.fails + 1,
          failedAt |-> IF h.fails + 1 >= 3 THEN t ELSE h.failedAt]

\* history: whether the vector search of the request returned, with how
\* many rows and how many of them with a usable embedding
Searched(o, searchOut) ==
    IF o.searchCalls = 1 /\ searchOut.ok
    THEN [called |-> TRUE, filas |-> Len(searchOut.data),
          validas |-> Len(SelectSeq(searchOut.data, EmbeddingValido))]
    ELSE NoSearch

(* The outcomes a request consumes: a collaborator the request does not    *)
(* reach has a single (unused) outcome.                                    *)

ReachesConn(pregunta) ==
    LET key == sanitizar_pregunta(pregunta, MAX_LENGTH)
    IN  key # <<>> /\ key \notin DOMAIN cache

ConnChoices(pregunta, conns) ==
    IF ReachesConn(pregunta) THEN conns ELSE { ConnOk }

ReachesCtx(pregunta, connOuts) ==
    ReachesConn(pregunta) /\ conectar_supabase(connCB, now, connOuts).ok

EmbChoices(pregunta, connOuts) ==
    IF ReachesCtx(pregunta, connOuts) THEN EmbOuts
    ELSE { [ok |-> FALSE, vector |-> <<>>] }

SearchChoices(pregunta, connOuts, embOut) ==
    IF ReachesCtx(pregunta, connOuts) /\ embOut.ok THEN SearchOuts
    ELSE { [ok |-> FALSE, data |-> <<>>] }

GptChoices(pregunta, connOuts, embOut, searchOut) ==
    IF /\ ReachesCtx(pregunta, connOuts)
       /\ obtener_contexto_relevante(pregunta, embOut, searchOut, TOP_K).ok
    THEN GptOuts
    ELSE { GptFallo }

\* the state after the call of responder_pregunta whose outcome is r
Served(r, searchOut) ==
    /\ cache' = r.cache
    /\ connCB' = r.connCB
    /\ gptCB' = r.gptCB
    /\ answered' = Record(r.obs)
    /\ gptHist' = RecordGpt(gptHist, r.obs.gptCalls, r.obs.path = "generated", now)
    /\ last' = r.obs
    /\ lastSearch' = Searched(r.obs, searchOut)

RequestOf(preguntas, conns) ==
    /\ \E pregunta \in preguntas :
       \E connOuts \in ConnChoices(pregunta, conns) :
       \E embOut \in EmbChoices(pregunta, connOuts) :
       \E searchOut \in SearchChoices(pregunta, connOuts, embOut) :
       \E gptOut \in GptChoices(pregunta, connOuts, embOut, searchOut) :
          LET r == responder_pregunta(pregunta, cache, connCB, gptCB, now,
                                      connOuts, embOut, searchOut, gptOut)
          IN  Served(r, searchOut)
    /\ seq' = 1 - seq
    /\ UNCHANGED <<now, pc, loc, args, ret, user_data>>

TickSteps == {30}

\* the monotonic clock advances between requests
Tick ==
    /\ \E d \in TickSteps :
          /\ now + d <= MaxTime
          /\ now' = now + d
    /\ UNCHANGED <<cache, gptCB, connCB, answered, gptHist, last, seq, pc, loc,
                   lastSearch, args, ret, user_data>>

\* requests with every outcome of every collaborator
Request == RequestOf(Questions, ConnOutSeqs)

Next == Request \/ Tick

Spec == Init /\ [][Next]_vars

\* requests for several questions while Supabase is reachable: every
\* request gets as far as the generation call
RequestGen == RequestOf(QuestionsGen, { ConnOk })

NextGen == RequestGen \/ Tick

SpecGen == Init /\ [][NextGen]_vars

\* raw questions without a kept character that is not whitespace, and one
\* with such characters
QuestionsBlank == { <<"!", " ", "!">>, <<" ", " ">>, <<"!">>, <<"a", "?">> }

RequestBlank == RequestOf(QuestionsBlank, { ConnOk })

NextBlank == RequestBlank \/ Tick

SpecBlank == Init /\ [][NextBlank]_vars

(* Calls of conectar_supabase by any of its callers. *)

\* outcomes of the runs of the body in one call: a run follows an HTTPError
ConnCallOuts ==
    { <<"ok", "ok", "ok">>, <<"error", "ok", "ok">>,
      <<"http", "ok", "ok">>, <<"http", "error", "ok">>,
      <<"http", "http", "ok">>, <<"http", "http", "error">>,
      <<"http", "http", "http">> }

CallConn ==
    /\ \E outs \in ConnCallOuts :
          LET r == conectar_supabase(connCB, now, outs)
          IN  /\ connCB' = r.cb
              /\ args' = [fn |-> "conectar_supabase", outs |-> outs]
              /\ ret' = [done |-> TRUE,
                         value |-> [ok |-> r.ok, error |-> r.error,
                                    calls |-> r.calls, rechazos |-> r.rechazos]]
    /\ seq' = 1 - seq
    /\ UNCHANGED <<cache, gptCB, now, answered, gptHist, last, pc, loc, lastSearch, user_data>>

NextConn == CallConn \/ Tick

SpecConn == Init /\ [][NextConn]_vars

----------------------------------------------------------------------------
(* The Telegram bot.  The application handles one update at a time, so a   *)
(* handler runs to completion before the next update is looked at.  reply  *)
(* says whether Telegram accepts the messages the handler sends (if not,   *)
(* reply_text raises NetworkError); replies lists the messages the handler *)
(* tried to send.                                                          *)

HasColon(text) == \E i \in 1..Len(text) : text[i] = ":"

\* authenticate(usuario, contrasena): a token and the user's row, or an
\* exception
NoAuth == [ok |-> FALSE, token |-> "", user |-> ""]

AuthOuts ==
    { NoAuth,
      [ok |-> TRUE, token |-> "t1", user |-> "u1"],
      [ok |-> TRUE, token |-> "t2", user |-> "u2"] }

\* d[k] = v
DictSet(d, k, v) == [x \in DOMAIN d \cup {k} |-> IF x = k THEN v ELSE d[x]]

\* variant: a failed authentication ends the session
TrasAuthCierra(datos, auth) ==
    IF auth.ok
    THEN DictSet(DictSet(datos, "token", auth.token), "user", auth.user)
    ELSE SinDatos

\* user_data of the chat after the try block of credenciales_handler
TrasAuth(datos, auth) ==
    IF auth.ok
    THEN DictSet(DictSet(datos, "token", auth.token), "user", auth.user)
    ELSE datos

\* variant: the token is looked up in data shared by all chats
SinTokenEnNadie(datos, chat) == \A c \in Chats : "token" \notin DOMAIN datos[c]

\* "token" not in context.user_data
SinToken(datos, chat) == "token" \notin DOMAIN datos[chat]

Handled(replies, authCalls, auth, iaCalls, raised) ==
    [done |-> TRUE,
     value |-> [replies |-> replies, authCalls |-> authCalls, auth |-> auth,
                iaCalls |-> iaCalls, raised |-> raised]]

\* what the handler did to the chat's user_data, and what it reports
credenciales_handler(datos, text, authOut, reply) ==
    LET mensaje == Strip(text)
    IN  IF ~HasColon(mensaje)
        THEN [datos |-> datos, ret |-> Handled(<<"formato">>, 0, NoAuth, 0, ~reply)]
        ELSE IF ~authOut.ok
        THEN [datos |-> TrasAuth(datos, authOut),
              ret |-> Handled(<<"invalidas">>, 1, authOut, 0, ~reply)]
        ELSE [datos |-> TrasAuth(datos, authOut),
              ret |-> Handled(IF reply THEN <<"hola">> ELSE <<"hola", "invalidas">>,
                              1, authOut, 0, ~reply)]

\* texts of the updates: credentials, a text without a colon, questions,
\* and an update without text
CredTexts == { <<"a", ":", "b">>, <<" ", "a", ":">>, <<"a", "b">> }
MensajeTexts == { <<"a", "?">>, <<"!">>, <<>> }

\* what the collaborators of responder_pregunta do for the bot's requests
BotEmbOut == [ok |-> TRUE, vector |-> QueryVector]
BotSearchOut == [ok |-> TRUE, data |-> <<>>]
BotGptOuts == { [ok |-> TRUE, text |-> <<" ", "R1", " ", "\n">>, error |-> "none"], GptFallo }

BotStart ==
    /\ \E chat \in Chats, reply \in BOOLEAN :
          /\ args' = [fn |-> "start", chat |-> chat, text |-> <<"/">>]
          /\ ret' = Handled(<<"bienvenida">>, 0, NoAuth, 0, ~reply)
    /\ seq' = 1 - seq
    /\ UNCHANGED <<cache, gptCB, connCB, now, answered, gptHist, last, pc, loc,
                   lastSearch, user_data>>

BotCredenciales ==
    /\ \E chat \in Chats, text \in CredTexts, authOut \in AuthOuts, reply \in BOOLEAN :
          LET h == credenciales_handler(user_data[chat], text, authOut, reply)
          IN  /\ args' = [fn |-> "credenciales_handler", chat |-> chat, text |-> text]
              /\ user_data' = [user_data EXCEPT ![chat] = h.datos]
              /\ ret' = h.ret
    /\ seq' = 1 - seq
    /\ UNCHANGED <<cache, gptCB, connCB, now, answered, gptHist, last, pc, loc,
                   lastSearch>>

\* a NetworkError of reply_text is caught by the handler's except clause, so
\* no exception leaves it whether or not Telegram accepts the reply
BotMensaje ==
    /\ \E chat \in Chats, text \in MensajeTexts, gptOut \in BotGptOuts :
          LET mensaje_sanitizado == sanitizar_pregunta(text, MAX_LENGTH)
              r == responder_pregunta(mensaje_sanitizado, cache, connCB, gptCB, now,
                                      ConnOk, BotEmbOut, BotSearchOut, gptOut)
              quiet == UNCHANGED <<cache, gptCB, connCB, answered, gptHist, last,
                                   lastSearch>>
          IN  /\ args' = [fn |-> "manejar_mensaje", chat |-> chat, text |-> text]
              /\ IF SinToken(user_data, chat)
                 THEN /\ ret' = Handled(<<"credenciales">>, 0, NoAuth, 0, FALSE)
                      /\ quiet
                 ELSE IF text = <<>>
                 THEN /\ ret' = Handled(<<"texto">>, 0, NoAuth, 0, FALSE)
                      /\ quiet
                 ELSE IF Len(mensaje_sanitizado) > 500
                 THEN /\ ret' = Handled(<<"larga">>, 0, NoAuth, 0, FALSE)
                      /\ quiet
                 ELSE /\ ret' = Handled(<<r.obs.result>>, 0, NoAuth, 1, FALSE)
                      /\ Served(r, BotSearchOut)
    /\ seq' = 1 - seq
    /\ UNCHANGED <<now, pc, loc, user_data>>

NextBot == BotStart \/ BotCredenciales \/ BotMensaje

SpecBot == Init /\ [][NextBot]_vars

----------------------------------------------------------------------------
(* Concurrent execution: each worker serves one request; a step is the     *)
(* code up to the next blocking call.  The cache lookup (Start) and the    *)
(* cache write (Write) are separate steps on the shared dict.  Each        *)
(* breaker tests the circuit when a call starts (ConnEnter, GenEnter) and  *)
(* counts the outcome when the call ends (ConnExit, GenExit); between the  *)
(* tries of conectar_supabase the worker sleeps (backoff), so the tries of *)
(* two workers interleave on the shared connection breaker.  The embedding *)
(* request (Embed) and the vector search (Search) are two blocking calls.  *)

Finish(w, r) ==
    /\ cache' = r.cache
    /\ pc' = [pc EXCEPT ![w] = "done"]
    /\ loc' = [loc EXCEPT ![w].obs = r.obs]
    /\ answered' = Record(r.obs)
    /\ last' = r.obs
    /\ seq' = 1 - seq

Start(w) ==
    /\ pc[w] = "idle"
    /\ \E pregunta \in Questions :
          LET key == sanitizar_pregunta(pregunta, MAX_LENGTH)
          IN  IF EsVacia(pregunta, key) \/ CacheHit(cache, key)
              THEN Finish(w, responder_pregunta(pregunta, cache, connCB, gptCB, now,
                                                ConnOk, [ok |-> FALSE, vector |-> <<>>],
                                                [ok |-> FALSE, data |-> <<>>],
                                                GptFallo))
              ELSE /\ pc' = [pc EXCEPT ![w] = "connect"]
                   /\ loc' = [loc EXCEPT ![w].key = key,
                                         ![w].obs = Obs(key, "", "none", "none", <<>>,
                                                        0, 0, 0, 0, 0, 0, 1, 0)]
                   /\ UNCHANGED <<cache, answered, last, seq>>
    /\ UNCHANGED <<gptCB, connCB, now, gptHist, lastSearch, args, ret, user_data>>

\* a try of conectar_supabase starts: at the call, or when a backoff sleep
\* ends
ConnEnter(w) ==
    /\ pc[w] = "connect"
    /\ LET o == loc[w].obs
       IN  IF ConnRechazada(connCB, now)
           THEN Finish(w, Fallo(loc[w].key, cache, connCB, gptCB, "CircuitBreakerError",
                                <<>>, o.connCalls, 0, 0, 0, 0, 0))
           ELSE /\ pc' = [pc EXCEPT ![w] = "creating"]
                /\ loc' = [loc EXCEPT ![w].obs.connCalls = o.connCalls + 1]
                /\ UNCHANGED <<cache, answered, last, seq>>
    /\ UNCHANGED <<gptCB, connCB, now, gptHist, lastSearch, args, ret, user_data>>

\* the body of conectar_supabase returns or raises
ConnExit(w) ==
    /\ pc[w] = "creating"
    /\ \E out \in ConnOutcomes :
          LET o == loc[w].obs
              conn == ConnSalida(connCB, now, out, o.connCalls)
          IN  /\ connCB' = conn.cb
              /\ IF conn.ok
                 THEN /\ pc' = [pc EXCEPT ![w] = "context"]
                      /\ UNCHANGED <<cache, answered, last, seq, loc>>
                 ELSE IF conn.retry
                 THEN /\ pc' = [pc EXCEPT ![w] = "connect"]
                      /\ UNCHANGED <<cache, answered, last, seq, loc>>
                 ELSE Finish(w, Fallo(loc[w].key, cache, conn.cb, gptCB, conn.error,
                                      <<>>, o.connCalls, 0, 0, 0, 0, 0))
    /\ UNCHANGED <<gptCB, now, gptHist, lastSearch, args, ret, user_data>>

\* the embedding request of obtener_contexto_relevante
Embed(w) ==
    /\ pc[w] = "context"
    /\ \E embOut \in EmbOuts :
          LET ctx == obtener_contexto_relevante(loc[w].key, embOut,
                                                [ok |-> FALSE, data |-> <<>>], TOP_K)
              o == loc[w].obs
          IN  IF embOut.ok
              THEN /\ pc' = [pc EXCEPT ![w] = "search"]
                   /\ loc' = [loc EXCEPT ![w].vector = embOut.vector,
                                         ![w].obs.embedCalls = ctx.embedCalls]
                   /\ UNCHANGED <<cache, answered, last, seq>>
              ELSE Finish(w, Fallo(loc[w].key, cache, connCB, gptCB, ctx.error, <<>>,
                                   o.connCalls, ctx.embedCalls, ctx.searchCalls, 0, 0, 0))
    /\ UNCHANGED <<gptCB, connCB, now, gptHist, lastSearch, args, ret, user_data>>

\* the vector search, and the ranking and truncation of what it returned
Search(w) ==
    /\ pc[w] = "search"
    /\ \E searchOut \in SearchOuts :
          LET ctx == obtener_contexto_relevante(loc[w].key,
                                                [ok |-> TRUE, vector |-> loc[w].vector],
                                                searchOut, TOP_K)
              o == loc[w].obs
          IN  IF ctx.ok
              THEN /\ pc' = [pc EXCEPT ![w] = "generate"]
                   /\ loc' = [loc EXCEPT ![w].contexto = ctx.contexto,
                                         ![w].obs.contexto = ctx.contexto,
                                         ![w].obs.searchCalls = ctx.searchCalls]
                   /\ UNCHANGED <<cache, answered, last, seq>>
              ELSE Finish(w, Fallo(loc[w].key, cache, connCB, gptCB, ctx.error, <<>>,
                                   o.connCalls, ctx.embedCalls, ctx.searchCalls, 0, 0, 0))
    /\ UNCHANGED <<gptCB, connCB, now, gptHist, lastSearch, args, ret, user_data>>

GenEnter(w) ==
    /\ pc[w] = "generate"
    /\ LET o == loc[w].obs
       IN  IF GptRechazada(gptCB, now)
           THEN Finish(w, Fallo(loc[w].key, cache, connCB, gptCB, "CircuitBreakerError",
                                loc[w].contexto, o.connCalls, o.embedCalls,
                                o.searchCalls, 1, 0, 0))
           ELSE /\ pc' = [pc EXCEPT ![w] = "completion"]
                /\ loc' = [loc EXCEPT ![w].obs.genCalls = 1]
                /\ UNCHANGED <<cache, answered, last, seq>>
    /\ UNCHANGED <<gptCB, connCB, now, gptHist, lastSearch, args, ret, user_data>>

GenExit(w) ==
    /\ pc[w] = "completion"
    /\ \E gptOut \in GptOuts :
          LET gpt == GptSalida(gptCB, now, gptOut)
              o == loc[w].obs
          IN  /\ gptCB' = gpt.cb
              /\ gptHist' = RecordGpt(gptHist, gpt.attempted, gpt.ok, now)
              /\ IF gpt.ok
                 THEN /\ pc' = [pc EXCEPT ![w] = "write"]
                      /\ loc' = [loc EXCEPT ![w].respuesta = gpt.respuesta,
                                            ![w].obs.gptCalls = gpt.attempted,
                                            ![w].obs.latencyObs = gpt.observed]
                      /\ UNCHANGED <<cache, answered, last, seq>>
                 ELSE Finish(w, Fallo(loc[w].key, cache, connCB, gpt.cb, gpt.error,
                                      loc[w].contexto, o.connCalls, o.embedCalls,
                                      o.searchCalls, 1, gpt.attempted, gpt.observed))
    /\ UNCHANGED <<connCB, now, lastSearch, args, ret, user_data>>

Write(w) ==
    /\ pc[w] = "write"
    /\ LET o == loc[w].obs
       IN  Finish(w, [cache |-> CachePut(cache, loc[w].key, loc[w].respuesta),
                      obs |-> Obs(loc[w].key, loc[w].respuesta, "generated", "none",
                                  loc[w].contexto, o.connCalls, o.embedCalls,
                                  o.searchCalls, o.genCalls, o.gptCalls,
                                  o.latencyObs, 1, 1)])
    /\ UNCHANGED <<gptCB, connCB, now, gptHist, lastSearch, args, ret, user_data>>

NextConc ==
    \E w \in Workers :
        \/ Start(w)
        \/ ConnEnter(w)
        \/ ConnExit(w)
        \/ Embed(w)
        \/ Search(w)
        \/ GenEnter(w)
        \/ GenExit(w)
        \/ Write(w)

SpecConc == Init /\ [][NextConc]_vars

----------------------------------------------------------------------------
(* Direct calls of the functions of ia.py: the arguments are drawn in the  *)
(* initial state and one step makes the call.                              *)

Return(value) ==
    /\ ~ret.done
    /\ ret' = [done |-> TRUE, value |-> value]
    /\ UNCHANGED <<cache, gptCB, connCB, now, answered, gptHist, last, seq, pc, loc,
                   lastSearch, args, user_data>>

(* obtener_contexto_relevante(pregunta, supabase, k) *)

DocB2 == [es_lista |-> TRUE, embedding_vector |-> <<2, 2>>, contenido |-> <<"c">>]
DocB3 == [es_lista |-> TRUE, embedding_vector |-> <<3, 3>>, contenido |-> <<"f">>]
DocC == [es_lista |-> TRUE, embedding_vector |-> <<0, 1>>, contenido |-> <<"d">>]
DocVacio == [es_lista |-> TRUE, embedding_vector |-> <<>>, contenido |-> <<"e">>]

\* rows the vector search can return: against QueryVector they score 1,
\* 0.7071067811865475 (DocB and DocB2), 0.7071067811865476 (DocB3, the same
\* direction, the quotient rounded up) and 0; two rows have no usable
\* embedding
RankDocs == { DocA, DocB, DocB2, DocB3, DocC, DocNull, DocVacio }

RankData == UNION { [1..n -> RankDocs] : n \in 0..MaxRows }

RankKs == 1..TOP_K

RankEmbOuts ==
    { [ok |-> FALSE, vector |-> <<>>],
      [ok |-> TRUE, vector |-> QueryVector],
      [ok |-> TRUE, vector |-> <<1, 1>>] }

RankSearchOuts(embOut) ==
    IF embOut.ok
    THEN { [ok |-> FALSE, data |-> <<>>] } \cup [ok : {TRUE}, data : RankData]
    ELSE { [ok |-> FALSE, data |-> <<>>] }

RankCalls ==
    { [fn |-> "obtener_contexto_relevante", pregunta |-> <<"a", "?">>,
       embOut |-> e, searchOut |-> r, k |-> k] :
         e \in RankEmbOuts, r \in UNION { RankSearchOuts(x) : x \in RankEmbOuts },
         k \in RankKs }

InitRank == InitCall({ c \in RankCalls : c.searchOut \in RankSearchOuts(c.embOut) })

CallRank ==
    /\ args.fn = "obtener_contexto_relevante"
    /\ Return(obtener_contexto_relevante(args.pregunta, args.embOut, args.searchOut, args.k))

NextRank == CallRank

SpecRank == InitRank /\ [][NextRank]_vars

(* obtener_contexto_relevante with rows of another dimension *)

DocCeroLargo == [es_lista |-> TRUE, embedding_vector |-> <<0, 0, 0>>, contenido |-> <<"c">>]

\* rows of the query's dimension and of a longer one, with and without a
\* zero vector
DimDocs == { DocA, DocLong, DocCeroLargo, DocNull }

DimData == UNION { [1..n -> DimDocs] : n \in 0..MaxRows }

DimSearchOuts(embOut) ==
    IF embOut.ok
    THEN { [ok |-> FALSE, data |-> <<>>] } \cup [ok : {TRUE}, data : DimData]
    ELSE { [ok |-> FALSE, data |-> <<>>] }

DimCalls ==
    { [fn |-> "obtener_contexto_relevante", pregunta |-> <<"a", "?">>,
       embOut |-> e, searchOut |-> r, k |-> k] :
         e \in RankEmbOuts, r \in UNION { DimSearchOuts(x) : x \in RankEmbOuts },
         k \in RankKs }

InitDim == InitCall({ c \in DimCalls : c.searchOut \in DimSearchOuts(c.embOut) })

SpecDim == InitDim /\ [][NextRank]_vars

(* similitud_coseno(v1, v2) *)

Components == {-1, 0, 1}

Vectors == UNION { [1..n -> Components] : n \in 0..MaxDim }

SimCalls == { [fn |-> "similitud_coseno", v1 |-> a, v2 |-> b] : a, b \in Vectors }

InitSim == InitCall(SimCalls)

CallSim ==
    /\ args.fn = "similitud_coseno"
    /\ Return(similitud_coseno(args.v1, args.v2))

NextSim == CallSim

SpecSim == InitSim /\ [][NextSim]_vars

(* sanitizar_pregunta(pregunta, max_length) *)

RawChars == {"a", "ñ", " ", "?", "!"}

\* the question of the example, and one made of disallowed characters only
EjemploPortero ==
    <<"¿", "C", "ó", "m", "o", " ", "c", "o", "n", "t", "a", "c", "t", "o", " ",
      "a", "l", " ", "p", "o", "r", "t", "e", "r", "o", "?", "!", "@", "#", "$">>
EjemploRuido == <<"!", "!", "!", "@", "@", "@">>

RawStrings ==
    UNION { [1..n -> RawChars] : n \in 0..MaxRawLen }
        \cup { EjemploPortero, EjemploRuido }

SanCalls ==
    { [fn |-> "sanitizar_pregunta", pregunta |-> p, max_length |-> m] :
         p \in RawStrings, m \in 0..MaxRawLen \cup { MAX_LENGTH } }

InitSan == InitCall(SanCalls)

CallSan ==
    /\ args.fn = "sanitizar_pregunta"
    /\ Return(sanitizar_pregunta(args.pregunta, args.max_length))

\* the string a caller sanitized is sanitized once more by the function it
\* is passed to (manejar_mensaje, then responder_pregunta)
CallSanAgain ==
    /\ args.fn = "sanitizar_pregunta"
    /\ ret.done
    /\ "again" \notin DOMAIN ret
    /\ ret' = [done |-> TRUE, value |-> ret.value,
               again |-> sanitizar_pregunta(ret.value, args.max_length)]
    /\ UNCHANGED <<cache, gptCB, connCB, now, answered, gptHist, last, seq, pc, loc,
                   lastSearch, args, user_data>>

NextSan == CallSan \/ CallSanAgain

SpecSan == InitSan /\ [][NextSan]_vars

(* truncar_contexto(contexto, max_palabras) *)

CtxChars == {"a", "b", " ", "\n"}

CtxStrings == UNION { [1..n -> CtxChars] : n \in 0..MaxCtxLen }

TruncCalls ==
    { [fn |-> "truncar_contexto", contexto |-> c, max_palabras |-> m] :
         c \in CtxStrings, m \in 0..MaxCtxLen }

InitTrunc == InitCall(TruncCalls)

CallTrunc ==
    /\ args.fn = "truncar_contexto"
    /\ Return(truncar_contexto(args.contexto, args.max_palabras))

NextTrunc == CallTrunc

SpecTrunc == InitTrunc /\ [][NextTrunc]_vars

(* guardar_embeddings(supabase, tabla, datos, batch_size) of embeddings.py. *)
(* A record is its position in datos.  fallos[b] is the number of          *)
(* consecutive attempts to insert the b-th batch that raise; log_ok says   *)
(* whether failed_batches.log can be appended to.                          *)

\* variant: datos[i:i + batch_size - 1]
LoteSinUltimo(datos, i, batch_size) ==
    SubSeq(datos, i + 1, Min(i + batch_size - 1, Len(datos)))

\* datos[i:i + batch_size], i counted from 0
Lote(datos, i, batch_size) ==
    SubSeq(datos, i + 1, Min(i + batch_size, Len(datos)))

\* total_batches
TotalBatches(n, batch_size) == (n + batch_size - 1) \div batch_size

\* @retry(stop=stop_after_attempt(MAX_RETRIES)): the insert is attempted
\* again after every exception, without waiting, until the attempt numbered
\* MAX_RETRIES; ok = FALSE is the RetryError raised then
RECURSIVE BatchTry(_, _)
BatchTry(fallos, intento) ==
    IF intento > fallos THEN [ok |-> TRUE, intentos |-> intento]
    ELSE IF intento >= MAX_RETRIES THEN [ok |-> FALSE, intentos |-> intento]
    ELSE BatchTry(fallos, intento + 1)

guardar_batch(fallos) == BatchTry(fallos, 1)

NadaGuardado == [lotes |-> <<>>, raised |-> FALSE]

\* the for loop from offset i on; lotes lists, for every batch tried, its
\* records, where they went and the number of insert attempts
RECURSIVE GuardarDesde(_, _, _, _, _, _)
GuardarDesde(datos, batch_size, fallos, log_ok, i, hecho) ==
    IF i >= Len(datos) THEN hecho
    ELSE LET batch == Lote(datos, i, batch_size)
             r == guardar_batch(fallos[Len(hecho.lotes) + 1])
             lote(destino) ==
                 [registros |-> batch, destino |-> destino, intentos |-> r.intentos]
         IN  IF r.ok
             THEN GuardarDesde(datos, batch_size, fallos, log_ok, i + batch_size,
                               [hecho EXCEPT !.lotes = Append(@, lote("tabla"))])
             ELSE IF log_ok
             THEN GuardarDesde(datos, batch_size, fallos, log_ok, i + batch_size,
                               [hecho EXCEPT !.lotes = Append(@, lote("failed_batches.log"))])
             ELSE \* open or write raised: the exception leaves the function
                  [lotes |-> Append(hecho.lotes, lote("none")), raised |-> TRUE]

guardar_embeddings(datos, batch_size, fallos, log_ok) ==
    GuardarDesde(datos, batch_size, fallos, log_ok, 0, NadaGuardado)

\* fallos is given for the batches the call has
SaveCalls ==
    { [fn |-> "guardar_embeddings", datos |-> [i \in 1..n |-> i],
       batch_size |-> b, fallos |-> f, log_ok |-> w] :
         n \in 0..MaxDatos, b \in 1..MaxBatch, w \in BOOLEAN,
         f \in UNION { [1..m -> 0..MAX_RETRIES] : m \in 0..MaxDatos } }

InitSave ==
    InitCall({ c \in SaveCalls :
                  Len(c.fallos) = TotalBatches(Len(c.datos), c.batch_size) })

CallSave ==
    /\ args.fn = "guardar_embeddings"
    /\ Return(guardar_embeddings(args.datos, args.batch_size, args.fallos, args.log_ok))

NextSave == CallSave

SpecSave == InitSave /\ [][NextSave]_vars

----------------------------------------------------------------------------
(* Claims *)

RequestDone == seq' # seq

NoCalls(o) ==
    /\ o.connCalls = 0 /\ o.embedCalls = 0 /\ o.searchCalls = 0
    /\ o.genCalls = 0 /\ o.gptCalls = 0

\* C1: whatever the collaborators do, responder_pregunta ends by returning
\* a string (an answer or one of the two fixed messages); no exception
\* leaves it.
Thm_C1_AlwaysReturnsString ==
    /\ last.path \in {"none", "invalid", "hit", "generated", "failed"}
    /\ last.path # "none" => last.result \in Answers \cup {MSG_INVALIDA, MSG_ERROR}

\* a request that got as far as the generation call and was rejected by the
\* open circuit
Wit_C1_CircuitRejected ==
    /\ last.path = "failed"
    /\ last.error = "CircuitBreakerError"
    /\ last.genCalls = 1
    /\ last.result = MSG_ERROR

\* C2: a request in which any stage failed returns the fixed generic
\* message, which is not the text of the error.
Thm_C2_GenericMessage ==
    last.error # "none" =>
        /\ last.result = MSG_ERROR
        /\ last.result # last.error

\* the vector search failed after connection and embedding succeeded
Wit_C2_SearchFailed ==
    /\ last.error = "SearchError"
    /\ last.searchCalls = 1
    /\ last.result = MSG_ERROR

\* C3: a question that is empty once sanitized gets the "valid question"
\* message, and the request touches neither the cache nor any collaborator.
Thm_C3_EmptyQuestion ==
    /\ (last.path # "none" /\ last.key = <<>>) =>
          /\ last.result = MSG_INVALIDA
          /\ NoCalls(last)
          /\ last.latencyObs = 0
          /\ last.cacheReads = 0
          /\ last.cacheWrites = 0
    /\ <<>> \notin DOMAIN cache

Wit_C3_Rejected ==
    /\ last.path = "invalid"
    /\ last.key = <<>>
    /\ cache # <<>>

\* C4: once a request returned a generated answer for a sanitized question,
\* every later request whose question sanitizes to the same string returns
\* that same answer and calls no collaborator.
Thm_C4_CacheIdempotent ==
    [][ (RequestDone /\ last'.key \in DOMAIN answered) =>
            /\ last'.result = answered[last'.key]
            /\ NoCalls(last')
            /\ last'.path = "hit" ]_vars

\* a request made 30 seconds or more after the answer was generated is
\* served from the cache
Wit_C4_ServedFromCache ==
    /\ last.path = "hit"
    /\ last.key \in DOMAIN answered
    /\ last.result = answered[last.key]
    /\ NoCalls(last)
    /\ now > 0

\* C5: only a request whose generation call succeeded adds a cache entry; a
\* request that ends with a fixed message leaves the cache as it was, so
\* the cache never holds a failure and an uncached question enters the
\* pipeline again.
Thm_C5_OnlySuccessCached ==
    [][ RequestDone =>
            /\ IF last'.path = "generated" /\ last'.gptCalls = 1
               THEN cache' = CachePut(cache, last'.key, last'.result)
               ELSE cache' = cache
            /\ \A q \in DOMAIN cache' : cache'[q] \in Answers
            /\ (last'.key # <<>> /\ last'.key \notin DOMAIN cache) =>
                   /\ last'.path \in {"failed", "generated"}
                   /\ last'.cacheReads = 1 ]_vars

\* the generation circuit opened on failed requests at time 30 or later, and
\* a later request for the same question ran the pipeline and was answered
Wit_C5_RetriedAfterFailure ==
    /\ last.path = "generated"
    /\ last.gptCalls = 1
    /\ gptCB.opened > 0
    /\ last.key \in DOMAIN cache

\* C6: after 3 or more consecutive failed completion calls, a call of
\* responder_con_gpt made less than 60 seconds after the latest of them is
\* rejected with the circuit-open error, the completion API is not invoked
\* and the breaker is left as it was.
Thm_C6_OpenRejects ==
    [][ (RequestDone /\ last'.genCalls = 1
            /\ gptHist.fails >= 3 /\ now < gptHist.failedAt + 60) =>
            /\ last'.gptCalls = 0
            /\ last'.error = "CircuitBreakerError"
            /\ gptCB' = gptCB ]_vars

\* a call rejected 30 seconds after the third failure
Wit_C6_RejectedBeforeTimeout ==
    /\ last.genCalls = 1
    /\ last.gptCalls = 0
    /\ last.error = "CircuitBreakerError"
    /\ gptHist.fails = 3
    /\ now = gptHist.failedAt + 30

\* C7: with the circuit open and 60 seconds elapsed since it opened, the
\* next call reaches the completion API; its success closes the circuit
\* and clears the count, its failure opens the circuit anew at that time.
Thm_C7_HalfOpenTrial ==
    [][ (RequestDone /\ last'.genCalls = 1
            /\ gptCB.state = "open" /\ now - gptCB.opened >= 60) =>
            /\ last'.gptCalls = 1
            /\ IF last'.path = "generated"
               THEN gptCB'.state = "closed" /\ gptCB'.failure_count = 0
               ELSE /\ gptCB'.state = "open"
                    /\ gptCB'.opened = now
                    /\ CBOpened(gptCB', now, GPT_RECOVERY_TIMEOUT) ]_vars

\* a trial call failed and the circuit opened again at the time of the trial
Wit_C7_TrialFailed ==
    /\ last.gptCalls = 1
    /\ last.path = "failed"
    /\ gptCB.state = "open"
    /\ gptCB.failure_count = 4
    /\ gptCB.opened = now
    /\ now >= 60

\* C8: the circuit is open only after 3 completion calls failed in a row;
\* while it is closed its count is the number of failures since the latest
\* success.
Thm_C8_OnlyConsecutive ==
    /\ gptCB.state = "open" => gptHist.fails >= 3
    /\ gptCB.state = "closed" => gptCB.failure_count = gptHist.fails
    /\ gptCB.state = "closed" => gptCB.failure_count < 3

\* the circuit opened on three failures, a trial call succeeded, and two
\* more calls failed: the closed breaker counts two failures
Wit_C8_ResetBySuccess ==
    /\ gptCB.state = "closed"
    /\ gptCB.failure_count = 2
    /\ cache # <<>>
    /\ gptCB.opened > 0

\* C9: a request adds one latency observation for each completion call it
\* attempted, none when the open circuit rejected the call.
Thm_C9_OneObservationPerAttempt ==
    /\ last.latencyObs = last.gptCalls
    /\ last.gptCalls <= last.genCalls

\* an attempted call that raised was observed
Wit_C9_FailureObserved ==
    /\ last.path = "failed"
    /\ last.error = "OpenAIError"
    /\ last.gptCalls = 1
    /\ last.latencyObs = 1

\* C10: a request that missed the cache runs the pipeline to the end and
\* stores and returns its own answer, also when another request for the
\* same question stored an answer in between: nothing makes the lookup and
\* the write one step, so two requests that both missed both generate.
Thm_C10_NoExactlyOnce ==
    [][ \A w \in Workers :
          (pc[w] = "write" /\ pc'[w] = "done") =>
              /\ loc'[w].obs.path = "generated"
              /\ loc'[w].obs.result = loc[w].respuesta
              /\ loc'[w].obs.gptCalls = 1
              /\ cache'[loc[w].key] = loc[w].respuesta ]_vars

\* both requests missed the cache for the same sanitized question, both
\* invoked the completion API, and they got different answers
Wit_C10_BothGenerated ==
    /\ \A w \in Workers :
          /\ pc[w] = "done"
          /\ loc[w].obs.path = "generated"
          /\ loc[w].obs.cacheReads = 1
          /\ loc[w].obs.gptCalls = 1
    /\ loc[1].obs.key = loc[2].obs.key
    /\ loc[1].obs.result # loc[2].obs.result

\* C11: in a sequential run a step never removes a cache entry and never
\* changes the answer stored for a sanitized question.
Thm_C11_CacheOnlyGrows ==
    [][ \A q \in DOMAIN cache :
            /\ q \in DOMAIN cache'
            /\ cache'[q] = cache[q] ]_vars

\* two questions were answered and stored, and a later request for one of
\* them was served from the cache
Wit_C11_TwoEntriesKept ==
    /\ Cardinality(DOMAIN cache) = 2
    /\ last.path = "hit"
    /\ cache[last.key] = answered[last.key]
    /\ now > 0

\* the rows of data that enter the ranking, by position
ValidRows(data) == { i \in 1..Len(data) : EmbeddingValido(data[i]) }

\* the score of the row at position i against the question's embedding
RowScore(q, data, i) == similitud_coseno(q, data[i].embedding_vector).score

\* the context built from the rows at positions idx, in that order
ContextOf(data, idx) ==
    Join(<<"\n", "\n">>, [i \in 1..Len(idx) |-> data[idx[i]].contenido])

\* idx lists distinct rows, none scoring above an earlier one, and no valid
\* row left out scores above a listed one
IsTopRanking(q, data, idx) ==
    /\ \A i, j \in 1..Len(idx) :
           i < j => /\ idx[i] # idx[j]
                    /\ ~ScoreGt(RowScore(q, data, idx[j]), RowScore(q, data, idx[i]))
    /\ \A v \in ValidRows(data) : \A i \in 1..Len(idx) :
           (\A j \in 1..Len(idx) : idx[j] # v) =>
               ~ScoreGt(RowScore(q, data, v), RowScore(q, data, idx[i]))

\* C12: the context is the text of min(k, number of valid rows) distinct
\* valid rows, in descending order of cosine score, and no valid row left
\* out scores higher than a row that was taken.
Thm_C12_TopKDescending ==
    (ret.done /\ args.embOut.ok /\ args.searchOut.ok) =>
        LET data == args.searchOut.data
            valid == ValidRows(data)
            n == Min(args.k, Cardinality(valid))
        IN  /\ ret.value.ok
            /\ \E idx \in [1..n -> valid] :
                   /\ IsTopRanking(args.embOut.vector, data, idx)
                   /\ ret.value.contexto = ContextOf(data, idx)

\* rows scoring 0.707, 0 and 1 with k = 2: the third row comes first, the
\* first row second, the second row is left out
Wit_C12_ThirdRowFirst ==
    /\ ret.done
    /\ args.k = 2
    /\ args.embOut.vector = QueryVector
    /\ args.searchOut.data = <<DocB, DocC, DocA>>
    /\ ret.value.contexto = <<"a", "\n", "\n", "b">>

ScoreEq(s1, s2) == ~ScoreGt(s1, s2) /\ ~ScoreGt(s2, s1)

\* among rows of equal score the one returned earlier is listed earlier, and
\* a row left out that ties with a listed one was returned after it
TiesInRetrievalOrder(q, data, idx) ==
    /\ \A i, j \in 1..Len(idx) :
           (i < j /\ ScoreEq(RowScore(q, data, idx[i]), RowScore(q, data, idx[j])))
               => idx[i] < idx[j]
    /\ \A v \in ValidRows(data) : \A i \in 1..Len(idx) :
           ( /\ \A j \in 1..Len(idx) : idx[j] # v
             /\ ScoreEq(RowScore(q, data, v), RowScore(q, data, idx[i])) )
               => idx[i] < v

\* C13: valid rows with equal cosine scores appear in the context in the
\* order the vector search returned them, and when such rows straddle the
\* cut-off after position k the ones returned first are the ones kept.
Thm_C13_TiesKeepOrder ==
    (ret.done /\ ret.value.ok /\ args.searchOut.ok) =>
        LET data == args.searchOut.data
            valid == ValidRows(data)
            n == Min(args.k, Cardinality(valid))
        IN  \E idx \in [1..n -> valid] :
               /\ IsTopRanking(args.embOut.vector, data, idx)
               /\ TiesInRetrievalOrder(args.embOut.vector, data, idx)
               /\ ret.value.contexto = ContextOf(data, idx)

\* two rows tie at 0.707 behind a row scoring 1, with k = 2: the tied row
\* returned first takes the second place and the other is left out
Wit_C13_TieAtCutOff ==
    /\ ret.done
    /\ args.k = 2
    /\ args.embOut.vector = QueryVector
    /\ args.searchOut.data = <<DocB2, DocA, DocB>>
    /\ ret.value.contexto = <<"a", "\n", "\n", "c">>

\* C14: for max_palabras >= 0 the words of the string truncar_contexto
\* returns are the first min(max_palabras, number of words) words of its
\* argument, in the same order.
Thm_C14_FirstWords ==
    ret.done =>
        LET palabras == Split(args.contexto)
            n == Min(args.max_palabras, Len(palabras))
        IN  /\ Len(Split(ret.value)) = n
            /\ Split(ret.value) = SubSeq(palabras, 1, n)

\* a context of two words separated by a line break is cut to its first word
Wit_C14_Truncated ==
    /\ ret.done
    /\ args.contexto = <<"b", "\n", "a">>
    /\ args.max_palabras = 1
    /\ ret.value = <<"b">>

\* a row whose embedding field is missing, null, not a list, or an empty list
SinEmbedding(doc) == ~doc.es_lista \/ doc.embedding_vector = <<>>

ConEmbedding(doc) == ~SinEmbedding(doc)

\* C15: rows without a usable embedding do not make the call raise, and the
\* context is the one the same call builds from the remaining rows alone.
Thm_C15_InvalidRowsDropped ==
    (ret.done /\ args.embOut.ok /\ args.searchOut.ok) =>
        LET resto == [ok |-> TRUE,
                      data |-> SelectSeq(args.searchOut.data, ConEmbedding)]
        IN  /\ ret.value.ok
            /\ ret.value.error = "none"
            /\ ret.value.contexto =
                   obtener_contexto_relevante(args.pregunta, args.embOut,
                                              resto, args.k).contexto
            /\ (\A i \in 1..Len(args.searchOut.data) :
                    SinEmbedding(args.searchOut.data[i]))
                  => ret.value.contexto = <<>>

\* a row with a null embedding, a valid row and a row with an empty list,
\* with room for three rows: only the valid row's text is in the context
Wit_C15_OnlyValidRowUsed ==
    /\ ret.done
    /\ args.k = 3
    /\ args.searchOut.data = <<DocNull, DocA, DocVacio>>
    /\ ret.value.ok
    /\ ret.value.contexto = <<"a">>

\* C16: when the vector search returns no rows, or no row with a usable
\* embedding, the context is empty and nothing was raised; the request goes
\* on to call responder_con_gpt with the empty context, and when that call
\* succeeds its answer is returned and stored.
Thm_C16_EmptyContextStillAnswers ==
    (lastSearch.called /\ lastSearch.validas = 0) =>
        /\ last.contexto = <<>>
        /\ last.genCalls = 1
        /\ last.error \in {"none", "CircuitBreakerError", "OpenAIError"}
        /\ last.error = "none" =>
               /\ last.path = "generated"
               /\ last.gptCalls = 1
               /\ last.result \in Answers
               /\ last.cacheWrites = 1
               /\ last.key \in DOMAIN cache
               /\ cache[last.key] = last.result

\* the search returned zero rows and the request returned and stored the
\* generated answer
Wit_C16_ZeroRowsAnswered ==
    /\ lastSearch.called
    /\ lastSearch.filas = 0
    /\ last.path = "generated"
    /\ last.contexto = <<>>
    /\ cache[last.key] = last.result

\* C17: a call of obtener_contexto_relevante(pregunta, supabase, k) asks
\* for the embedding of pregunta, and once that call has returned it calls
\* vector_search exactly once, with that embedding and match_count = 2 * k;
\* vector_search is not called before, nor when the embedding call raised.
Thm_C17_OneSearchWith2k ==
    ret.done =>
        /\ ret.value.embedInputs = <<args.pregunta>>
        /\ ret.value.searchCalls = Len(ret.value.rpc)
        /\ IF args.embOut.ok
           THEN /\ ret.value.searchCalls = 1
                /\ ret.value.rpc[1].match_count = 2 * args.k
                /\ ret.value.rpc[1].query_embedding = args.embOut.vector
           ELSE ret.value.searchCalls = 0

\* a call with k = 3 whose embedding was <<1, 1>> searched once for 6 rows
Wit_C17_SixRowsRequested ==
    /\ ret.done
    /\ args.k = 3
    /\ args.embOut.vector = <<1, 1>>
    /\ args.searchOut.ok
    /\ ret.value.rpc = <<[query_embedding |-> <<1, 1>>, match_count |-> 6]>>

\* alphanumeric characters and underscore, whitespace, accented vowels,
\* the letter ñ, and the two question marks
AllowedChars ==
    WordChars \cup SpaceChars \cup {"á", "é", "í", "ó", "ú", "ñ", "¿", "?"}

\* C18: for max_length >= 0 the string sanitizar_pregunta returns has at
\* most max_length characters, each of them alphanumeric, an underscore,
\* whitespace, an accented vowel, ñ, or one of the two question marks.
Thm_C18_BoundedAndClean ==
    ret.done =>
        /\ Len(ret.value) <= args.max_length
        /\ \A i \in 1..Len(ret.value) : ret.value[i] \in AllowedChars

\* a question with a disallowed character and more kept characters than
\* max_length allows: the result is filtered and cut
Wit_C18_FilteredAndCut ==
    /\ ret.done
    /\ args.pregunta = <<"ñ", "!", "?">>
    /\ args.max_length = 1
    /\ ret.value = <<"ñ">>

\* the string neither begins nor ends with a whitespace character
NoOuterWhitespace(str) ==
    str # <<>> => (str[1] \notin SpaceChars /\ str[Len(str)] \notin SpaceChars)

\* the argument without its leading and trailing whitespace
Stripped(str) ==
    LET inner == { i \in 1..Len(str) : str[i] \notin SpaceChars }
    IN  IF inner = {} THEN <<>>
        ELSE LET first == CHOOSE i \in inner : \A j \in inner : i <= j
                 final == CHOOSE i \in inner : \A j \in inner : j <= i
             IN  SubSeq(str, first, final)

KeptCount(str) == Cardinality({ i \in 1..Len(str) : str[i] \in AllowedChars })

\* C19 as stated: whatever the input, the string sanitizar_pregunta returns
\* neither begins nor ends with a whitespace character.
Cex_C19_NoOuterWhitespace ==
    ret.done => NoOuterWhitespace(ret.value)

\* C19, amended: the whitespace around the input is stripped before the
\* disallowed characters are removed and the result is cut, so the result
\* is that of the input without its surrounding whitespace; it does not
\* begin with whitespace when the first non-whitespace character of the
\* input is a kept one, and does not end with whitespace when the last
\* non-whitespace character is a kept one and max_length cuts nothing off.
Thm_C19_StripsInputFirst ==
    ret.done =>
        LET s == Stripped(args.pregunta)
        IN  /\ ret.value = sanitizar_pregunta(s, args.max_length)
            /\ (s # <<>> /\ s[1] \in AllowedChars /\ args.max_length >= 1)
                  => /\ ret.value # <<>>
                     /\ ret.value[1] = s[1]
                     /\ ret.value[1] \notin SpaceChars
            /\ ( /\ s # <<>>
                 /\ s[Len(s)] \in AllowedChars
                 /\ KeptCount(s) <= args.max_length )
                  => /\ ret.value # <<>>
                     /\ ret.value[Len(ret.value)] = s[Len(s)]
                     /\ ret.value[Len(ret.value)] \notin SpaceChars

\* a question between two spaces comes back without them
Wit_C19_SurroundingSpacesGone ==
    /\ ret.done
    /\ args.pregunta = <<" ", "a", " ">>
    /\ args.max_length = MaxRawLen
    /\ ret.value = <<"a">>

\* '¿Cómo contacto al portero' and the same with the closing question mark
PorteroSinCierre == SubSeq(EjemploPortero, 1, 25)
PorteroConCierre == SubSeq(EjemploPortero, 1, 26)

\* C20 as stated: the example question comes back without the trailing
\* punctuation and without the closing '?'.
Cex_C20_ClosingMarkDropped ==
    (ret.done /\ args.pregunta = EjemploPortero /\ args.max_length = MAX_LENGTH)
        => ret.value = PorteroSinCierre

\* C20, amended: the example question comes back as
\* '¿Cómo contacto al portero?': the trailing '!@#$' is removed and '¿',
\* the letters and the closing '?' are kept; in general a '?' followed only
\* by disallowed characters is the last character of the result, unless
\* max_length cuts it off.
Thm_C20_ClosingMarkKept ==
    ret.done =>
        /\ (args.pregunta = EjemploPortero /\ args.max_length = MAX_LENGTH)
              => ret.value = PorteroConCierre
        /\ \A n \in 1..Len(args.pregunta) :
              ( /\ n < Len(args.pregunta)
                /\ args.pregunta[n] = "?"
                /\ \A i \in (n + 1)..Len(args.pregunta) :
                       args.pregunta[i] \notin AllowedChars
                /\ KeptCount(Stripped(args.pregunta)) <= args.max_length )
                  => /\ ret.value # <<>>
                     /\ ret.value[Len(ret.value)] = "?"

\* the example question was normalized with the default max_length
Wit_C20_ExampleNormalized ==
    /\ ret.done
    /\ args.pregunta = EjemploPortero
    /\ args.max_length = MAX_LENGTH
    /\ ret.value[1] = "¿"
    /\ ret.value[Len(ret.value)] = "?"
    /\ Len(ret.value) = Len(EjemploPortero) - 4

\* the rows with a usable embedding whose length is not the query's
MismatchedRows(q, data) ==
    { i \in 1..Len(data) :
         /\ ~SinEmbedding(data[i])
         /\ Len(data[i].embedding_vector) # Len(q) }

\* C21 as stated: when a row with a usable embedding has another length
\* than the question's embedding, obtener_contexto_relevante fails (it
\* raises, and returns no context built from a silently scored row).
Cex_C21_MismatchFails ==
    ( /\ ret.done /\ args.embOut.ok /\ args.searchOut.ok
      /\ MismatchedRows(args.embOut.vector, args.searchOut.data) # {} )
        => /\ ~ret.value.ok
           /\ ret.value.error = "ValueError"

Zero(v) == \A i \in 1..Len(v) : v[i] = 0

\* C22: when every component of either argument is zero (the vector has
\* zero norm), similitud_coseno returns 0.0 and does not raise, whatever
\* the other argument is.
Thm_C22_ZeroNorm ==
    (ret.done /\ (Zero(args.v1) \/ Zero(args.v2))) =>
        /\ ret.value.ok
        /\ ret.value.score = ZeroScore

\* similitud_coseno([0, 0], [1, 1]) returned 0.0
Wit_C22_ZeroAgainstOnes ==
    /\ ret.done
    /\ args.v1 = <<0, 0>>
    /\ args.v2 = <<1, 1>>
    /\ ret.value = [ok |-> TRUE, score |-> ZeroScore]

\* C29: a request whose sanitized question is in the cache returns the
\* cached answer whatever the state of the generation breaker, calls no
\* collaborator, and leaves both breakers and the cache as they were.
Thm_C29_HitIgnoresBreaker ==
    [][ (RequestDone /\ last'.key \in DOMAIN cache) =>
            /\ last'.path = "hit"
            /\ last'.result = cache[last'.key]
            /\ NoCalls(last')
            /\ gptCB' = gptCB
            /\ connCB' = connCB
            /\ cache' = cache ]_vars

\* a cached answer served 30 seconds after the generation circuit opened
Wit_C29_HitWhileOpen ==
    /\ last.path = "hit"
    /\ last.result \in Answers
    /\ gptCB.state = "open"
    /\ gptCB.failure_count = 3
    /\ now = gptCB.opened + 30
    /\ CBOpened(gptCB, now, GPT_RECOVERY_TIMEOUT)

\* the errors raised by the stages that precede generation
PreGenerationErrors ==
    {"HTTPError", "ConnError", "EmbeddingError", "SearchError", "ValueError"}

\* C30: a request that fails before the generation stage does not call
\* responder_con_gpt and leaves the generation breaker as it was; the
\* breaker changes only in a request that invoked the completion API, and
\* it opens only when that invocation failed.
Thm_C30_OnlyCompletionFailuresCount ==
    [][ RequestDone =>
            /\ last'.error \in PreGenerationErrors => last'.genCalls = 0
            /\ (last'.path = "failed" /\ last'.genCalls = 0) =>
                   /\ last'.gptCalls = 0
                   /\ gptCB' = gptCB
            /\ gptCB' # gptCB => last'.gptCalls = 1
            /\ (gptCB'.state = "open" /\ gptCB' # gptCB) =>
                   last'.error = "OpenAIError" ]_vars

\* the vector search failed in a request made after two failed completion
\* calls: the count is still two
Wit_C30_SearchFailureNotCounted ==
    /\ last.error = "SearchError"
    /\ last.genCalls = 0
    /\ gptCB.state = "closed"
    /\ gptCB.failure_count = 2
    /\ gptHist.fails = 2

\* C27 as stated: sanitizing a sanitized string returns it unchanged.
Cex_C27_Idempotent ==
    "again" \in DOMAIN ret => ret.again = ret.value

\* C27, amended: sanitizing a sanitized string returns it without its
\* leading and trailing whitespace, so the second application changes the
\* string exactly when the first result begins or ends with whitespace.
Thm_C27_SecondPassStrips ==
    "again" \in DOMAIN ret =>
        /\ ret.again = Stripped(ret.value)
        /\ ret.again = ret.value <=> NoOuterWhitespace(ret.value)

\* "! a" is sanitized to " a", and " a" to "a"
Wit_C27_SecondPassDiffers ==
    /\ "again" \in DOMAIN ret
    /\ args.pregunta = <<"!", " ", "a">>
    /\ args.max_length = MAX_LENGTH
    /\ ret.value = <<" ", "a">>
    /\ ret.again = <<"a">>

Blank(str) == \A i \in 1..Len(str) : str[i] \in SpaceChars

\* C28 as stated: the embedder is never called for a question that consists
\* only of whitespace; such a question gets the "valid question" message.
Cex_C28_BlankRejected ==
    /\ last.embedCalls > 0 => ~Blank(last.key)
    /\ (last.path # "none" /\ Blank(last.key)) => last.result = MSG_INVALIDA

RECURSIVE Registros(_)
Registros(lotes) ==
    IF lotes = <<>> THEN <<>> ELSE Head(lotes).registros \o Registros(Tail(lotes))

\* C25: guardar_embeddings, when it returns, has cut datos into consecutive
\* batches of 1 to batch_size records that cover every record once and in
\* order; every batch was inserted within MAX_RETRIES attempts or, after
\* MAX_RETRIES failed attempts, appended to failed_batches.log, and the
\* batches after a failed one were processed too.  No batch is attempted
\* more than MAX_RETRIES times.
Thm_C25_EveryRecordSavedOrLogged ==
    (ret.done /\ args.fn = "guardar_embeddings") =>
        LET lotes == ret.value.lotes
        IN  /\ \A b \in 1..Len(lotes) :
                  /\ lotes[b].intentos \in 1..MAX_RETRIES
                  /\ Len(lotes[b].registros) \in 1..args.batch_size
                  /\ lotes[b].destino = "tabla" <=> args.fallos[b] < MAX_RETRIES
                  /\ lotes[b].destino = "tabla" => lotes[b].intentos = args.fallos[b] + 1
                  /\ lotes[b].destino # "tabla" => lotes[b].intentos = MAX_RETRIES
            /\ ~ret.value.raised =>
                  /\ Len(lotes) = Len(args.fallos)
                  /\ Registros(lotes) = args.datos
                  /\ \A b \in 1..Len(lotes) :
                        lotes[b].destino \in {"tabla", "failed_batches.log"}
                  /\ \A i \in 1..Len(args.datos) :
                        Cardinality({ bj \in (1..Len(lotes)) \X (1..args.batch_size) :
                                         /\ bj[2] <= Len(lotes[bj[1]].registros)
                                         /\ lotes[bj[1]].registros[bj[2]] = args.datos[i] }) = 1

\* three records in batches of two: the first batch failed three times and
\* was logged, the second was inserted at its second attempt
Wit_C25_FailedBatchLogged ==
    /\ ret.done
    /\ args.fn = "guardar_embeddings"
    /\ args.datos = <<1, 2, 3>>
    /\ ret.value.lotes =
          << [registros |-> <<1, 2>>, destino |-> "failed_batches.log", intentos |-> 3],
             [registros |-> <<3>>, destino |-> "tabla", intentos |-> 2] >>
    /\ ~ret.value.raised

\* the runs of the body that failed in the call just made
FailedRuns(r) == IF r.ok THEN r.calls - 1 ELSE r.calls

\* C26: a call of conectar_supabase runs its body at most 3 times, again
\* only after an HTTPError; every failed run counts, a success clears the
\* count, and from the third consecutive failure on the circuit is open.
\* While it is open and less than 30 seconds have passed since the latest
\* failure, a call is rejected at once, the body is not run and the breaker
\* is left as it was; once 30 seconds have passed the body is run again.  A
\* rejection ends the call: backoff does not try again after it.
Thm_C26_ConnectionBreaker ==
    [][ (RequestDone /\ args'.fn = "conectar_supabase") =>
          LET r == ret'.value
              outs == args'.outs
          IN  /\ r.calls <= 3
              /\ \A i \in 1..(r.calls - 1) : outs[i] = "http"
              /\ r.ok => /\ outs[r.calls] = "ok"
                         /\ connCB'.failure_count = 0
                         /\ connCB'.state = "closed"
              /\ ~r.ok => connCB'.failure_count = connCB.failure_count + r.calls
              /\ connCB'.state = "open" <=> connCB'.failure_count >= 3
              /\ (connCB.state = "open" /\ now < connCB.opened + 30) =>
                    /\ r.calls = 0
                    /\ r.error = "CircuitBreakerError"
                    /\ connCB' = connCB
              /\ (connCB.state = "open" /\ now >= connCB.opened + 30) => r.calls >= 1
              /\ connCB.state = "closed" => r.calls >= 1
              /\ (r.calls >= 1 /\ ~r.ok) => connCB'.opened = IF connCB'.state = "open" THEN now ELSE connCB.opened
              /\ r.rechazos = IF r.error = "CircuitBreakerError" THEN 1 ELSE 0
              /\ (r.error = "CircuitBreakerError" /\ r.calls >= 1) =>
                    /\ r.calls < 3
                    /\ outs[r.calls] = "http" ]_vars

\* after one earlier failure, a call failed twice with HTTPError, which
\* opened the circuit; its third try was rejected and not repeated
Wit_C26_RejectedDuringBackoff ==
    /\ ret.done
    /\ args.fn = "conectar_supabase"
    /\ args.outs = <<"http", "http", "http">>
    /\ ret.value = [ok |-> FALSE, error |-> "CircuitBreakerError", calls |-> 2, rechazos |-> 1]
    /\ connCB = [state |-> "open", failure_count |-> 3, opened |-> now]

\* C23: manejar_mensaje, run for a chat whose user_data has no token, does
\* not call responder_pregunta: it sends the credentials prompt and returns,
\* leaving the cache, the breakers and user_data as they were, whatever
\* updates were handled before; and no handler but credenciales_handler
\* changes user_data.
Thm_C23_NoTokenNoAnswer ==
    [][ RequestDone =>
          /\ (args'.fn = "manejar_mensaje" /\ "token" \notin DOMAIN user_data[args'.chat]) =>
                /\ ret'.value.iaCalls = 0
                /\ ret'.value.replies = <<"credenciales">>
                /\ ~ret'.value.raised
                /\ UNCHANGED <<cache, gptCB, connCB, last, user_data>>
          /\ args'.fn # "credenciales_handler" => user_data' = user_data ]_vars

\* chat 2 asked a question without having authenticated, after chat 1 had
\* authenticated and got an answer that is now cached
Wit_C23_PromptedWhileOtherServed ==
    /\ ret.done
    /\ args.fn = "manejar_mensaje"
    /\ args.chat = 2
    /\ args.text = <<"a", "?">>
    /\ user_data[2] = SinDatos
    /\ "token" \in DOMAIN user_data[1]
    /\ cache # <<>>
    /\ ret.value.replies = <<"credenciales">>
    /\ ret.value.iaCalls = 0

\* C24: credenciales_handler changes user_data only of the chat it runs
\* for, and only after authenticate returned: it then stores the token and
\* the user it returned.  A text without a colon (authenticate is not
\* called) or a failed authentication leaves user_data as it was.
Thm_C24_WritesOnlyOnSuccess ==
    [][ (RequestDone /\ args'.fn = "credenciales_handler") =>
          LET v == ret'.value
              c == args'.chat
          IN  /\ \A d \in Chats \ {c} : user_data'[d] = user_data[d]
              /\ ~HasColon(args'.text) =>
                    /\ v.authCalls = 0
                    /\ v.replies = <<"formato">>
              /\ HasColon(args'.text) => v.authCalls = 1
              /\ IF v.authCalls = 1 /\ v.auth.ok
                 THEN /\ DOMAIN user_data'[c] = {"token", "user"}
                      /\ user_data'[c]["token"] = v.auth.token
                      /\ user_data'[c]["user"] = v.auth.user
                 ELSE user_data'[c] = user_data[c]
              /\ UNCHANGED <<cache, gptCB, connCB, last>> ]_vars

\* an authenticated chat sent credentials that were refused: its session
\* is as it was
Wit_C24_FailureKeepsSession ==
    /\ ret.done
    /\ args.fn = "credenciales_handler"
    /\ args.text = <<"a", ":", "b">>
    /\ ret.value.authCalls = 1
    /\ ~ret.value.auth.ok
    /\ ret.value.replies = <<"invalidas">>
    /\ DOMAIN user_data[args.chat] = {"token", "user"}
    /\ user_data[args.chat]["token"] = "t1"
    /\ user_data[3 - args.chat] = SinDatos

====
